---- MODULE Spec2Model ----
(***************************************************************************)
(* Quote distribution pipeline of BSE_Exchange: the circuit breaker        *)
(* (services/monitoring_service.py), the batch fetcher                     *)
(* (services/batch_data_fetcher.py), the subscription registry             *)
(* (services/websocket_manager.py), the per-client broadcaster             *)
(* (services/optimized_websocket_service.py) and the delta codec           *)
(* (services/compression_service.py).                                      *)
(*                                                                         *)
(* Each component has its own specification (SpecCB, SpecCBSeq, SpecWS,    *)
(* SpecOpt, SpecBF); the variables of the other components stay at their   *)
(* initial values under it.                                                *)
(***************************************************************************)
EXTENDS Integers, Sequences, FiniteSets, TLC

\* ------------------------------------------------------------------------
\* Shared: time.  datetime.now() is a clock read; the model's clock is a
\* counter of seconds advanced by Tick.
\* ------------------------------------------------------------------------

\* _queue_message_for_client: max_queue_size (100 in the source).
max_queue_size == 2

\* Python's None for an unset timestamp.
NoTime == 0 - 1

\* Last second of the modelled clock.
MaxTime == 3

VARIABLES
    now,        \* the wall clock, in seconds
    breaker,    \* CircuitBreaker: [state, failure_count, last_failure_time]
    pc,         \* caller -> "idle" | "running" (inside func(*args) of call())
    ret,        \* caller -> how its last call() ended
    enter,      \* caller -> what its last call() saw on entry (history)
    consec,     \* history: failing calls completed since the last success
    lastEv      \* history: the kind of the last completed call() step

cbVars == <<breaker, pc, ret, enter, consec, lastEv>>

VARIABLES
    connected_clients,     \* WebSocketManager.connected_clients
    client_subscriptions,  \* client_id -> set of symbols (a dict)
    symbol_subscribers,    \* symbol -> set of client_ids (a dict)
    client_capabilities,   \* OptimizedWebSocketService.client_capabilities
    pending_batches,       \* client_id -> pending updates (a dict of lists)
    batch_config,          \* OptimizedWebSocketService.batch_config
    previous_data_cache,   \* CompressionService: symbol -> last data
    emits,                 \* the updates the last operation emitted to clients
    encs,                  \* history: the updates the last fan-out encoded
    n_updates,             \* history: quote updates fanned out so far
    message_queue,         \* WebSocketManager.message_queue (a dict of lists)
    n_messages,            \* history: messages handed to the manager so far
    pass,                  \* history: the last fan-out or send, and its target
    raised,                \* history: the sends of the last operation that raised
    escaped                \* history: the last operation raised to its caller

wsVars == <<connected_clients, client_subscriptions, symbol_subscribers,
            client_capabilities, pending_batches, batch_config,
            previous_data_cache,
            emits, encs, n_updates, message_queue, n_messages, pass,
            raised, escaped>>

VARIABLES
    watched_symbols,             \* BatchDataFetcher: symbol -> SymbolConfig
    circuit_breaker_failures,    \* the fetcher's own (legacy) breaker
    circuit_breaker_reset_time,  \* NoTime while unset
    fetch,                       \* the fetch_batch_quotes call in progress
    n_batches,                   \* history: fetch_batch_quotes calls so far
    update_callbacks,            \* BatchDataFetcher.update_callbacks (a list)
    due,                         \* history: the last get_symbols_needing_update
    watch_ret,                   \* history: the last watch-list call and its result
    monitoring_service           \* whether the fetcher was given a monitoring service

bfVars == <<watched_symbols, circuit_breaker_failures,
            circuit_breaker_reset_time, fetch, n_batches, update_callbacks,
            due, watch_ret, monitoring_service>>

VARIABLES
    cache_store,        \* the cache store: symbol -> cached quote (a dict)
    essential_stocks,   \* CacheIntegrationService.essential_stocks
    cache_hits,         \* CacheIntegrationService.cache_hits
    cache_misses,       \* CacheIntegrationService.cache_misses
    ci,                 \* the call of the integration service in progress
    ci_ret,             \* history: the last call that ended, and its result
    n_gets              \* history: get_stock_data calls that have ended

VARIABLES
    is_running,         \* CacheIntegrationService.is_running
    starter,            \* start_periodic_cache_warming calls in progress
    start_ret,          \* history: what the last start call of a caller returned
    warming,            \* the warming_loop threads started, in order
    updating            \* the update_loop threads of the fetcher, in order

loopVars == <<is_running, starter, start_ret, warming, updating>>

VARIABLES
    cs_pc,              \* the round trip: "data" | "optimized" | "restored"
    original_data,      \* the dict given to _optimize_data_structure
    optimized_data,     \* what _optimize_data_structure returned
    restored_data       \* what _restore_data_structure returned

csVars == <<cs_pc, original_data, optimized_data, restored_data>>

VARIABLES
    handlers,           \* the event handlers of the manager running as threads
    fetchers,           \* the threads inside fetch_batch_quotes and its callers
    delivered,          \* history: the quotes the client returned, in order
    writes,             \* history: the writes to the cache, in order
    loop_pc             \* where the thread of the endless update_loop is

thVars == <<handlers, fetchers, delivered, writes, loop_pc>>

ciVars == <<cache_store, essential_stocks, cache_hits, cache_misses, ci,
            ci_ret, n_gets, loopVars, csVars, thVars>>

\* ------------------------------------------------------------------------
\* CircuitBreaker (services/monitoring_service.py)
\* ------------------------------------------------------------------------

\* CircuitBreaker(failure_threshold, recovery_timeout), scaled to the clock.
failure_threshold == 2
recovery_timeout == 2

\* Threads that may be inside call() of the one shared breaker.
NumCallers == 2
Callers == 1..NumCallers

\* CircuitBreaker.__init__
NewBreaker == [state |-> "closed", failure_count |-> 0, last_failure_time |-> NoTime]

\* CircuitBreaker._should_attempt_reset
ShouldAttemptReset(b, t) ==
    IF b.last_failure_time = NoTime
    THEN TRUE
    ELSE (t - b.last_failure_time) >= recovery_timeout

\* A faulty variant of _on_success: the failure count survives the success.
OnSuccessKeepsCount(b) ==
    IF b.state = "half-open" THEN [b EXCEPT !.state = "closed"] ELSE b

\* CircuitBreaker._on_success
OnSuccess(b) ==
    [(IF b.state = "half-open" THEN [b EXCEPT !.state = "closed"] ELSE b)
        EXCEPT !.failure_count = 0]

\* A faulty variant of _on_failure: the breaker opens one failure late.
OnFailureLate(b, t) ==
    LET c == [b EXCEPT !.failure_count = b.failure_count + 1,
                       !.last_failure_time = t]
    IN  IF c.failure_count > failure_threshold
        THEN [c EXCEPT !.state = "open"]
        ELSE c

\* CircuitBreaker._on_failure
OnFailure(b, t) ==
    LET c == [b EXCEPT !.failure_count = b.failure_count + 1,
                       !.last_failure_time = t]
    IN  IF c.failure_count >= failure_threshold
        THEN [c EXCEPT !.state = "open"]
        ELSE c

\* The entry of call(): the breaker after the open check, and whether the
\* wrapped operation is reached (FALSE: "Circuit breaker is open" is raised).
CallEntry(b, t) ==
    IF b.state = "open"
    THEN IF ShouldAttemptReset(b, t)
         THEN [b |-> [b EXCEPT !.state = "half-open"], through |-> TRUE]
         ELSE [b |-> b, through |-> FALSE]
    ELSE [b |-> b, through |-> TRUE]

\* History of a call(): the state it saw on entry, whether it came before
\* recovery_timeout had elapsed since the last failure, and the state in
\* which func was started ("none": it was not).
NoEntry == [st |-> "none", early |-> FALSE, op |-> "none"]

NoEvent == [kind |-> "none", c |-> 0]

\* failure_count is capped so that the state space is finite.
MaxFailures == 6

InitCB ==
    /\ breaker = NewBreaker
    /\ pc = [c \in Callers |-> "idle"]
    /\ ret = [c \in Callers |-> "none"]
    /\ enter = [c \in Callers |-> NoEntry]
    /\ consec = 0
    /\ lastEv = NoEvent

\* call(), lines 107-115: the open check, then func(*args) is started.
CallBegin(c) ==
    /\ pc[c] = "idle"
    /\ LET e == CallEntry(breaker, now) IN
        /\ breaker' = e.b
        /\ enter' = [enter EXCEPT ![c] =
                [st |-> breaker.state,
                 early |-> /\ breaker.last_failure_time # NoTime
                           /\ now - breaker.last_failure_time < recovery_timeout,
                 op |-> IF e.through THEN e.b.state ELSE "none"]]
        /\ IF e.through
           THEN /\ pc' = [pc EXCEPT ![c] = "running"]
                /\ ret' = [ret EXCEPT ![c] = "none"]
                /\ lastEv' = [kind |-> "begin", c |-> c]
           ELSE /\ pc' = pc
                /\ ret' = [ret EXCEPT ![c] = "rejected"]
                /\ lastEv' = [kind |-> "rejected", c |-> c]
    /\ UNCHANGED <<now, consec, wsVars, bfVars, ciVars>>

\* call(), lines 115-117: func returned; _on_success.
CallSucceed(c) ==
    /\ pc[c] = "running"
    /\ breaker' = OnSuccess(breaker)
    /\ pc' = [pc EXCEPT ![c] = "idle"]
    /\ ret' = [ret EXCEPT ![c] = "ok"]
    /\ consec' = 0
    /\ lastEv' = [kind |-> "ok", c |-> c]
    /\ UNCHANGED <<now, enter, wsVars, bfVars, ciVars>>

\* call(), lines 119-121: func raised expected_exception; _on_failure, re-raise.
CallFail(c) ==
    /\ pc[c] = "running"
    /\ breaker.failure_count < MaxFailures
    /\ breaker' = OnFailure(breaker, now)
    /\ pc' = [pc EXCEPT ![c] = "idle"]
    /\ ret' = [ret EXCEPT ![c] = "failed"]
    /\ consec' = consec + 1
    /\ lastEv' = [kind |-> "failed", c |-> c]
    /\ UNCHANGED <<now, enter, wsVars, bfVars, ciVars>>

\* The clock advances.
Tick ==
    /\ now < MaxTime
    /\ now' = now + 1
    /\ UNCHANGED <<cbVars, wsVars, bfVars, ciVars>>

\* ------------------------------------------------------------------------
\* Python dicts: functions whose domain is the set of keys.
\* ------------------------------------------------------------------------

EmptyDict == [k \in {} |-> 0]

\* d[k] = v
Put(d, k, v) == [x \in (DOMAIN d) \cup {k} |-> IF x = k THEN v ELSE d[x]]

\* del d[k]
Del(d, k) == [x \in (DOMAIN d) \ {k} |-> d[x]]

\* d.get(k, default)
Get(d, k, default) == IF k \in DOMAIN d THEN d[k] ELSE default

\* ------------------------------------------------------------------------
\* WebSocketManager (services/websocket_manager.py)
\* ------------------------------------------------------------------------

\* Session ids of clients, and stock symbols.
Clients == {"c1", "c2"}
RegistryClients == Clients \cup {"c3"}
Symbols == {"R", "T"}

\* The registry after a subscription request of a connected client:
\* handle_client_subscription, lines 91-101.
SubscribeRegistry(subs, subscribers, c, symbols) ==
    LET mine == Get(subs, c, {})
        new_symbols == symbols \ mine
    IN  [subs |-> Put(subs, c, mine \cup symbols),
         subscribers |->
            [s \in (DOMAIN subscribers) \cup new_symbols |->
                IF s \in new_symbols
                THEN Get(subscribers, s, {}) \cup {c}
                ELSE subscribers[s]]]

\* A faulty variant of _unsubscribe_client_from_symbols: the reverse map is left alone.
DiscardSubscriberNot(subscribers, c, symbols) == subscribers

\* symbol_subscribers after client c is discarded from each of `symbols`,
\* empty entries deleted: lines 119-126 and 221-226.
DiscardSubscriber(subscribers, c, symbols) ==
    LET keep == {s \in DOMAIN subscribers :
                    ~(s \in symbols /\ subscribers[s] \ {c} = {})}
    IN  [s \in keep |-> IF s \in symbols THEN subscribers[s] \ {c}
                                         ELSE subscribers[s]]

\* One socketio.emit call that carries updates to a client.  The handshake
\* replies (connection_established, subscription_confirmed,
\* server_capabilities) carry none and are not recorded.
Emit(c, event, type, updates) ==
    [client |-> c, event |-> event, type |-> type, updates |-> updates]

\* ------------------------------------------------------------------------
\* CompressionService (services/compression_service.py), delta codec
\* ------------------------------------------------------------------------

\* Quote updates fanned out in one behaviour.
MaxUpdates == 2

\* Python's None for an absent optional field.
None == 0 - 1

\* StockQuote.to_dict(): every key is present, optional fields may be None.
\* The model keeps the timestamp, one required field and one optional field.
DataFields == {"current_price", "bid_price"}
Quotes ==
    {[timestamp |-> t, current_price |-> d[1], bid_price |-> d[2]] :
        t \in 1..(MaxUpdates + 1), d \in {<<1, None>>, <<1, 1>>, <<2, 1>>}}

\* An update message of the codec; `changes` and `data` are empty dicts in
\* the types that do not carry them.
Update(symbol, type, timestamp, changes, data) ==
    [symbol |-> symbol, type |-> type, timestamp |-> timestamp,
     changes |-> changes, data |-> data]

\* A faulty variant of the change detection: a field that became None is dropped.
ChangedFieldsSkipsNone(previous_data, new_dict) ==
    {k \in DataFields :
        new_dict[k] # None /\ Get(previous_data, k, None) # new_dict[k]}

\* create_delta_update, lines 146-156: the keys of new_dict, timestamp aside,
\* whose value differs from previous_data.get(key).
ChangedFields(previous_data, new_dict) ==
    {k \in DataFields : Get(previous_data, k, None) # new_dict[k]}

\* create_delta_update: the update, and the cache after it.
CreateDeltaUpdate(cache, symbol, new_dict) ==
    LET previous_data == Get(cache, symbol, EmptyDict)
        changed == ChangedFields(previous_data, new_dict)
        changes == [k \in changed |-> new_dict[k]]
    IN  [update |-> IF changed # {}
                    THEN Update(symbol, "delta", new_dict.timestamp, changes, EmptyDict)
                    ELSE Update(symbol, "heartbeat", new_dict.timestamp, EmptyDict, EmptyDict),
         cache |-> Put(cache, symbol, new_dict)]

\* create_full_update: the update, and the cache after it.
CreateFullUpdate(cache, symbol, data_dict) ==
    [update |-> Update(symbol, "full", data_dict.timestamp, EmptyDict, data_dict),
     cache |-> Put(cache, symbol, data_dict)]

\* ------------------------------------------------------------------------
\* OptimizedWebSocketService (services/optimized_websocket_service.py)
\* ------------------------------------------------------------------------

\* batch_config['batch_config_max_batch_size'] (10 in the source), scaled down.
batch_config_max_batch_size == 2

\* handle_client_capabilities: absent fields default to False.
Capabilities == [supports_compression : BOOLEAN,
                 supports_delta_updates : BOOLEAN,
                 supports_batch_updates : BOOLEAN]

\* client_capabilities.get(client_id, {}) read with .get(field, False).
NoCapabilities == [supports_compression |-> FALSE,
                   supports_delta_updates |-> FALSE,
                   supports_batch_updates |-> FALSE]

\* _flush_batch: `st` holds the pending batches, the emits so far, the
\* sends that raised so far, the batch_config and the clients for which
\* socketio.emit raises during this operation.  The batch is taken out of pending_batches before the send;
\* an exception of the send is caught and logged.
FlushBatch(st, caps, c) ==
    IF c \notin DOMAIN st.pending \/ st.pending[c] = <<>>
    THEN st
    ELSE LET message ==
                 Emit(c, "batch_update",
                      IF /\ Get(caps, c, NoCapabilities).supports_compression
                         /\ st.config.enable_compression
                      THEN "batch_update_compressed" ELSE "batch_update",
                      st.pending[c])
         IN  IF c \in st.fails
             THEN [st EXCEPT !.pending = Put(st.pending, c, <<>>),
                             !.raised = Append(st.raised, message)]
             ELSE [st EXCEPT !.pending = Put(st.pending, c, <<>>),
                             !.emits = Append(st.emits, message)]

\* _add_to_batch
AddToBatch(st, caps, c, update_data) ==
    LET st1 == [st EXCEPT !.pending =
                    Put(st.pending, c, Append(Get(st.pending, c, <<>>), update_data))]
    IN  IF Len(st1.pending[c]) >= st.config.max_batch_size
        THEN FlushBatch(st1, caps, c)
        ELSE st1

\* _send_single_update; `big`: the serialized message exceeds
\* batch_config['compression_threshold'].  The send is not guarded: when it
\* raises, the exception leaves _send_single_update and
\* _send_update_to_client (st.exception).
SendSingleUpdate(st, c, update_data, use_compression, big) ==
    LET message ==
            Emit(c, "optimized_update",
                 IF use_compression /\ st.config.enable_compression /\ big
                 THEN "stock_update_compressed"
                 ELSE "stock_update_optimized",
                 <<update_data>>)
    IN  IF c \in st.fails
        THEN [st EXCEPT !.raised = Append(st.raised, message),
                        !.exception = TRUE]
        ELSE [st EXCEPT !.emits = Append(st.emits, message)]

\* A faulty variant of _send_update_to_client: the delta encoder is used whether or
\* not the client declared delta support.
SendUpdateToClientDeltaAlways(st, caps, c, symbol, stock_data, force_full_update, big) ==
    LET client_caps == Get(caps, c, NoCapabilities)
        enc == IF ~force_full_update
               THEN CreateDeltaUpdate(st.cache, symbol, stock_data)
               ELSE CreateFullUpdate(st.cache, symbol, stock_data)
        st1 == [st EXCEPT
                  !.cache = enc.cache,
                  !.encs = Append(st.encs,
                      [client |-> c, previous |-> Get(st.cache, symbol, EmptyDict),
                       quote |-> stock_data, forced |-> force_full_update,
                       update |-> enc.update])]
    IN  IF client_caps.supports_batch_updates
        THEN AddToBatch(st1, caps, c, enc.update)
        ELSE SendSingleUpdate(st1, c, enc.update, client_caps.supports_compression, big)

\* _send_update_to_client
SendUpdateToClient(st, caps, c, symbol, stock_data, force_full_update, big) ==
    LET client_caps == Get(caps, c, NoCapabilities)
        enc == IF client_caps.supports_delta_updates /\ ~force_full_update
               THEN CreateDeltaUpdate(st.cache, symbol, stock_data)
               ELSE CreateFullUpdate(st.cache, symbol, stock_data)
        st1 == [st EXCEPT
                  !.cache = enc.cache,
                  !.encs = Append(st.encs,
                      [client |-> c, previous |-> Get(st.cache, symbol, EmptyDict),
                       quote |-> stock_data, forced |-> force_full_update,
                       update |-> enc.update])]
    IN  IF client_caps.supports_batch_updates
        THEN AddToBatch(st1, caps, c, enc.update)
        ELSE SendSingleUpdate(st1, c, enc.update, client_caps.supports_compression, big)

\* send_optimized_stock_update without the try/except of lines 127-130 (a
\* faulty variant): the first send that raises ends the loop and the
\* exception leaves send_optimized_stock_update.
RECURSIVE FanOutNoCatch(_, _, _, _, _, _, _, _)
FanOutNoCatch(st, caps, connected, order, symbol, stock_data, force_full_update, big) ==
    IF order = <<>>
    THEN st
    ELSE LET c == Head(order)
             st1 == IF c \notin connected
                    THEN st
                    ELSE SendUpdateToClient(st, caps, c, symbol, stock_data,
                                            force_full_update, big[c])
         IN  IF st1.exception
             THEN [st1 EXCEPT !.escaped = TRUE]
             ELSE FanOutNoCatch(st1, caps, connected, Tail(order), symbol,
                                stock_data, force_full_update, big)

\* send_optimized_stock_update, lines 123-130: the loop over the copied
\* subscriber set, in the order `order` the set happens to iterate in.
\* An exception of _send_update_to_client is caught and logged (lines
\* 127-130) and the loop goes on.
RECURSIVE FanOut(_, _, _, _, _, _, _, _)
FanOut(st, caps, connected, order, symbol, stock_data, force_full_update, big) ==
    IF order = <<>>
    THEN st
    ELSE LET c == Head(order)
             st1 == IF c \notin connected
                    THEN st
                    ELSE SendUpdateToClient(st, caps, c, symbol, stock_data,
                                            force_full_update, big[c])
         IN  FanOut([st1 EXCEPT !.exception = FALSE], caps, connected,
                    Tail(order), symbol, stock_data, force_full_update, big)

\* Which clients' messages exceed the compression threshold: a question only
\* for the clients _send_single_update compresses for.
BigChoices(subscribers) ==
    {b \in [Clients -> BOOLEAN] :
        \A c \in Clients :
            b[c] => /\ c \in subscribers
                    /\ Get(client_capabilities, c, NoCapabilities).supports_compression
                    /\ ~Get(client_capabilities, c, NoCapabilities).supports_batch_updates}

\* For which clients socketio.emit can raise during the fan-out for
\* `symbol`: a question only for the connected subscribers that are sent
\* something, which are those without batch support and those whose batch
\* this update fills.
SendFailChoices(symbol) ==
    SUBSET {c \in Get(symbol_subscribers, symbol, {}) \cap connected_clients :
               \/ ~Get(client_capabilities, c, NoCapabilities).supports_batch_updates
               \/ Len(Get(pending_batches, c, <<>>)) + 1
                      >= batch_config.max_batch_size}

\* The same, with the sends of single updates all returning: only the send
\* of a batch can raise.
FlushFailChoices(symbol) ==
    SUBSET {c \in Get(symbol_subscribers, symbol, {}) \cap connected_clients :
               /\ Get(client_capabilities, c, NoCapabilities).supports_batch_updates
               /\ Len(Get(pending_batches, c, <<>>)) + 1
                      >= batch_config.max_batch_size}

\* The orders in which a set can be iterated.
Orders(S) ==
    {o \in [1..Cardinality(S) -> S] : \A i, j \in DOMAIN o : o[i] = o[j] => i = j}

\* What the registry and the broadcaster leave alone.
notWS == <<now, cbVars, bfVars, ciVars, message_queue, n_messages>>

\* No fan-out or send has been made.
NoPass == [op |-> "none", target |-> ""]

\* The operation sent nothing, so that no send raised.
Silent ==
    /\ emits' = <<>>
    /\ raised' = <<>>
    /\ escaped' = FALSE
    /\ pass' = NoPass

\* __init__: batch_config (max_batch_size is 10 in the source).
NewBatchConfig == [max_batch_size |-> batch_config_max_batch_size,
                   enable_compression |-> TRUE]

InitWS ==
    /\ connected_clients = {}
    /\ client_subscriptions = EmptyDict
    /\ symbol_subscribers = EmptyDict
    /\ client_capabilities = EmptyDict
    /\ pending_batches = EmptyDict
    /\ batch_config = NewBatchConfig
    /\ previous_data_cache = EmptyDict
    /\ emits = <<>>
    /\ encs = <<>>
    /\ n_updates = 0
    /\ message_queue = EmptyDict
    /\ n_messages = 0
    /\ pass = NoPass
    /\ raised = <<>>
    /\ escaped = FALSE

\* The queue after _queue_message_for_client, without the bound: the oldest
\* message is never dropped (a faulty variant).
QueueMessageForClientUnbounded(queue, c, message) ==
    Put(queue, c, Append(Get(queue, c, <<>>), message))

\* _queue_message_for_client
QueueMessageForClient(queue, c, message) ==
    LET q == Get(queue, c, <<>>)
        kept == IF Len(q) >= max_queue_size THEN Tail(q) ELSE q
    IN  Put(queue, c, Append(kept, message))

\* The elements of seq at the positions in `at`, in their order.
RECURSIVE Pick(_, _, _)
Pick(seq, at, i) ==
    IF i > Len(seq) THEN <<>>
    ELSE IF i \in at THEN <<seq[i]>> \o Pick(seq, at, i + 1)
    ELSE Pick(seq, at, i + 1)

\* _send_queued_messages: what is sent to client c, message by message.
QueuedMessages(queue, c) ==
    LET q == Get(queue, c, <<>>)
    IN  [i \in DOMAIN q |-> Emit(c, "queued_message", q[i].type, <<q[i]>>)]

\* handle_connect.  Socket.IO gives every connection a fresh session id and
\* raises 'connect' once for it, so the id is not connected already.  The
\* queued messages are sent one by one, each send guarded on its own, and
\* the queue entry is deleted.  The closing 'connection_established' reply
\* changes no state.
Connect(c) ==
    /\ c \notin connected_clients
    /\ connected_clients' = connected_clients \cup {c}
    /\ client_subscriptions' = Put(client_subscriptions, c, {})
    /\ \E fails \in SUBSET DOMAIN QueuedMessages(message_queue, c) :
           LET sends == QueuedMessages(message_queue, c)
           IN  /\ emits' = Pick(sends, (DOMAIN sends) \ fails, 1)
               /\ raised' = Pick(sends, fails, 1)
    /\ escaped' = FALSE
    /\ pass' = NoPass
    /\ message_queue' = Del(message_queue, c)
    /\ encs' = <<>>
    /\ UNCHANGED <<symbol_subscribers, client_capabilities, pending_batches,
                   previous_data_cache, n_updates, batch_config,
                   now, cbVars, bfVars, ciVars, n_messages>>

\* handle_disconnect -> _cleanup_client
Disconnect(c) ==
    /\ connected_clients' = connected_clients \ {c}
    /\ IF c \in DOMAIN client_subscriptions
       THEN /\ symbol_subscribers' =
                    DiscardSubscriber(symbol_subscribers, c, client_subscriptions[c])
            /\ client_subscriptions' = Del(client_subscriptions, c)
       ELSE UNCHANGED <<symbol_subscribers, client_subscriptions>>
    /\ Silent
    /\ encs' = <<>>
    /\ UNCHANGED <<client_capabilities, pending_batches, previous_data_cache,
                   n_updates, batch_config,
                   notWS>>

\* handle_subscribe -> handle_client_subscription
Subscribe(c, symbols) ==
    /\ IF c \notin connected_clients
       THEN /\ UNCHANGED <<client_subscriptions, symbol_subscribers>>
            /\ Silent
       ELSE LET r == SubscribeRegistry(client_subscriptions, symbol_subscribers,
                                       c, symbols)
            IN  /\ client_subscriptions' = r.subs
                /\ symbol_subscribers' = r.subscribers
                /\ Silent
    /\ encs' = <<>>
    /\ UNCHANGED <<connected_clients, client_capabilities, pending_batches,
                   previous_data_cache, n_updates, batch_config,
                   notWS>>

\* handle_unsubscribe -> _unsubscribe_client_from_symbols
Unsubscribe(c, symbols) ==
    /\ IF c \notin DOMAIN client_subscriptions
       THEN UNCHANGED <<client_subscriptions, symbol_subscribers>>
       ELSE /\ client_subscriptions' =
                    Put(client_subscriptions, c, client_subscriptions[c] \ symbols)
            /\ symbol_subscribers' = DiscardSubscriber(symbol_subscribers, c, symbols)
    /\ Silent
    /\ encs' = <<>>
    /\ UNCHANGED <<connected_clients, client_capabilities, pending_batches,
                   previous_data_cache, n_updates, batch_config,
                   notWS>>

\* handle_client_capabilities, an event of a connected client.
Negotiate(c, capabilities) ==
    /\ c \in connected_clients
    /\ client_capabilities' = Put(client_capabilities, c, capabilities)
    /\ Silent
    /\ encs' = <<>>
    /\ UNCHANGED <<connected_clients, client_subscriptions, symbol_subscribers,
                   pending_batches, previous_data_cache, n_updates, batch_config,
                   notWS>>

\* Messages handed to send_to_client and to the broadcasts in one behaviour.
MaxMessages == 4

\* The message dictionary a caller builds: the n-th message of the behaviour
\* carries the number n where the source carries a timestamp.
Message(type, symbol) == [type |-> type, symbol |-> symbol, id |-> n_messages + 1]

\* send_to_client(client_id, message); `fail`: socketio.emit raises.  The
\* exception is caught and logged; a client that is not connected gets the
\* message queued.
SendToClient(c, fail) ==
    /\ n_messages < MaxMessages
    /\ n_messages' = n_messages + 1
    /\ LET message == Message("message", "")
           sent == Emit(c, "message", message.type, <<message>>)
       IN  IF c \in connected_clients
           THEN /\ emits' = IF fail THEN <<>> ELSE <<sent>>
                /\ raised' = IF fail THEN <<sent>> ELSE <<>>
                /\ UNCHANGED message_queue
           ELSE /\ ~fail
                /\ emits' = <<>>
                /\ raised' = <<>>
                /\ message_queue' = QueueMessageForClient(message_queue, c, message)
    /\ escaped' = FALSE
    /\ pass' = [op |-> "send_to_client", target |-> c]
    /\ encs' = <<>>
    /\ UNCHANGED <<connected_clients, client_subscriptions, symbol_subscribers,
                   client_capabilities, pending_batches, previous_data_cache,
                   n_updates, batch_config, now, cbVars, bfVars, ciVars>>

\* broadcast_stock_update, lines 151-161: the loop over the copied
\* subscriber set.  A send that raises is caught and the client noted; a
\* subscriber that is not connected gets the message queued and is noted.
RECURSIVE BroadcastEach(_, _, _, _)
BroadcastEach(st, connected, order, message) ==
    IF order = <<>>
    THEN st
    ELSE LET c == Head(order)
             sent == Emit(c, "stock_update", message.type, <<message>>)
             st1 == IF c \in connected
                    THEN IF c \in st.fails
                         THEN [st EXCEPT
                                 !.raised = Append(st.raised, sent),
                                 !.disconnected_clients =
                                     Append(st.disconnected_clients, c)]
                         ELSE [st EXCEPT !.emits = Append(st.emits, sent)]
                    ELSE [st EXCEPT
                            !.queue = QueueMessageForClient(st.queue, c, message),
                            !.disconnected_clients =
                                Append(st.disconnected_clients, c)]
         IN  BroadcastEach(st1, connected, Tail(order), message)

\* _cleanup_client on the registry `reg`
CleanupClient(reg, c) ==
    [connected |-> reg.connected \ {c},
     subs |-> Del(reg.subs, c),
     subscribers |-> IF c \in DOMAIN reg.subs
                     THEN DiscardSubscriber(reg.subscribers, c, reg.subs[c])
                     ELSE reg.subscribers]

\* broadcast_stock_update, lines 164-166: the noted clients that are not
\* connected are cleaned up.
RECURSIVE CleanupEach(_, _)
CleanupEach(reg, noted) ==
    IF noted = <<>>
    THEN reg
    ELSE CleanupEach(IF Head(noted) \notin reg.connected
                     THEN CleanupClient(reg, Head(noted))
                     ELSE reg,
                     Tail(noted))

\* broadcast_stock_update(symbol, data); `fails`: the clients for which
\* socketio.emit raises.
BroadcastStockUpdate(symbol, fails) ==
    /\ n_messages < MaxMessages
    /\ n_messages' = n_messages + 1
    /\ pass' = [op |-> "broadcast_stock_update", target |-> symbol]
    /\ escaped' = FALSE
    /\ encs' = <<>>
    /\ IF symbol \notin DOMAIN symbol_subscribers
       THEN /\ emits' = <<>>
            /\ raised' = <<>>
            /\ UNCHANGED <<connected_clients, client_subscriptions,
                           symbol_subscribers, message_queue>>
       ELSE \E order \in Orders(symbol_subscribers[symbol]) :
            \E st \in {BroadcastEach([emits |-> <<>>, raised |-> <<>>,
                                      queue |-> message_queue,
                                      disconnected_clients |-> <<>>,
                                      fails |-> fails],
                                     connected_clients, order,
                                     Message("stock_update", symbol))} :
            \E reg \in {CleanupEach([connected |-> connected_clients,
                                     subs |-> client_subscriptions,
                                     subscribers |-> symbol_subscribers],
                                    st.disconnected_clients)} :
                /\ emits' = st.emits
                /\ raised' = st.raised
                /\ message_queue' = st.queue
                /\ connected_clients' = reg.connected
                /\ client_subscriptions' = reg.subs
                /\ symbol_subscribers' = reg.subscribers
    /\ UNCHANGED <<client_capabilities, pending_batches, previous_data_cache,
                   n_updates, batch_config, now, cbVars, bfVars, ciVars>>

\* broadcast_system_message, lines 250-254: each send is guarded on its own.
RECURSIVE SystemEach(_, _, _)
SystemEach(st, order, message) ==
    IF order = <<>>
    THEN st
    ELSE LET c == Head(order)
             sent == Emit(c, "system_message", message.type, <<message>>)
         IN  SystemEach(IF c \in st.fails
                        THEN [st EXCEPT !.raised = Append(st.raised, sent)]
                        ELSE [st EXCEPT !.emits = Append(st.emits, sent)],
                        Tail(order), message)

\* broadcast_system_message(message); `fails`: the clients for which
\* socketio.emit raises.
BroadcastSystemMessage(fails) ==
    /\ n_messages < MaxMessages
    /\ n_messages' = n_messages + 1
    /\ pass' = [op |-> "broadcast_system_message", target |-> ""]
    /\ escaped' = FALSE
    /\ encs' = <<>>
    /\ \E order \in Orders(connected_clients) :
       \E st \in {SystemEach([emits |-> <<>>, raised |-> <<>>, fails |-> fails],
                             order, Message("system_message", ""))} :
           /\ emits' = st.emits
           /\ raised' = st.raised
    /\ UNCHANGED <<connected_clients, client_subscriptions, symbol_subscribers,
                   client_capabilities, pending_batches, previous_data_cache,
                   n_updates, batch_config, message_queue, now, cbVars, bfVars,
                   ciVars>>

\* send_optimized_stock_update(symbol, stock_data, force_full_update);
\* `fails`: the clients for which socketio.emit raises during the call.
QuoteUpdate(symbol, stock_data, force_full_update, fails) ==
    /\ n_updates < MaxUpdates
    /\ n_updates' = n_updates + 1
    /\ IF symbol \notin DOMAIN symbol_subscribers
       THEN /\ emits' = <<>>
            /\ raised' = <<>>
            /\ escaped' = FALSE
            /\ encs' = <<>>
            /\ UNCHANGED <<pending_batches, previous_data_cache>>
       ELSE \E order \in Orders(symbol_subscribers[symbol]) :
            \E big \in BigChoices(symbol_subscribers[symbol]) :
            \E st \in {FanOut([pending |-> pending_batches,
                                cache |-> previous_data_cache,
                                emits |-> <<>>, encs |-> <<>>,
                                raised |-> <<>>, exception |-> FALSE,
                                escaped |-> FALSE,
                                config |-> batch_config, fails |-> fails],
                               client_capabilities, connected_clients, order,
                               symbol, stock_data, force_full_update, big)} :
                    /\ pending_batches' = st.pending
                    /\ previous_data_cache' = st.cache
                    /\ emits' = st.emits
                    /\ encs' = st.encs
                    /\ raised' = st.raised
                    /\ escaped' = st.escaped
    /\ pass' = [op |-> "send_optimized_stock_update", target |-> symbol]
    /\ UNCHANGED <<connected_clients, client_subscriptions, symbol_subscribers,
                   client_capabilities, batch_config,
                   now, cbVars, bfVars, ciVars, message_queue, n_messages>>

\* flush_all_batches
RECURSIVE FlushEach(_, _, _)
FlushEach(st, caps, todo) ==
    IF todo = {}
    THEN st
    ELSE LET c == CHOOSE x \in todo : TRUE
         IN  FlushEach(FlushBatch(st, caps, c), caps, todo \ {c})

FlushAllBatches ==
    /\ \E fails \in SUBSET {c \in DOMAIN pending_batches :
                                pending_batches[c] # <<>>} :
           \E st \in {FlushEach([pending |-> pending_batches, emits |-> <<>>,
                                  raised |-> <<>>,
                                  config |-> batch_config, fails |-> fails],
                                 client_capabilities, DOMAIN pending_batches)} :
               /\ pending_batches' = st.pending
               /\ emits' = st.emits
               /\ raised' = st.raised
    /\ escaped' = FALSE
    /\ pass' = NoPass
    /\ encs' = <<>>
    /\ UNCHANGED <<connected_clients, client_subscriptions, symbol_subscribers,
                   client_capabilities, previous_data_cache, n_updates, batch_config,
                   notWS>>

\* The values of max_batch_size that update_batch_config is called with.
BatchSizes == 1..(batch_config_max_batch_size + 1)

\* The dicts update_batch_config is called with.
BatchConfigs == {[max_batch_size |-> n] : n \in BatchSizes}
                    \cup {[enable_compression |-> b] : b \in BOOLEAN}

\* update_batch_config: batch_config.update(config)
UpdateBatchConfig(config) ==
    /\ batch_config' = [k \in DOMAIN batch_config |->
                            IF k \in DOMAIN config THEN config[k]
                                                   ELSE batch_config[k]]
    /\ Silent
    /\ encs' = <<>>
    /\ UNCHANGED <<connected_clients, client_subscriptions, symbol_subscribers,
                   client_capabilities, pending_batches, previous_data_cache,
                   n_updates, notWS>>

\* ------------------------------------------------------------------------
\* BatchDataFetcher (services/batch_data_fetcher.py).  server.py constructs
\* it without a monitoring service, so that _fetch_single_quote calls the
\* BSE client directly; given one, the call goes through the "bse_api"
\* circuit breaker.
\* ------------------------------------------------------------------------

\* BatchDataFetcher.__init__ (20, 3, 5 and 300 seconds in the source).
max_batch_size == 2
max_retries == 2
circuit_breaker_threshold == 2
circuit_breaker_timeout == 2

FetchSymbols == {"X", "Y"}

\* Longest symbol list handed to fetch_batch_quotes: one symbol over the limit.
MaxInput == max_batch_size + 1

\* fetch_batch_quotes calls in one behaviour.
MaxBatches == 2

\* The symbol lists a caller can pass: any order, repetitions included.
Inputs == UNION {[1..n -> FetchSymbols] : n \in 0..MaxInput}

Range(seq) == {seq[i] : i \in DOMAIN seq}

\* What the BSE client does with one getQuote call.
AdapterOutcomes == {"quote", "empty", "raise"}

\* _fetch_single_quote returning None.
NoQuote == [symbol |-> "", timestamp |-> NoTime]

\* SymbolConfig.last_error = None
NoError == "None"

CircuitOpenMessage == "Circuit breaker is open, skipping batch fetch"
NoDataMessage == "No data returned from API"

\* SymbolConfig(symbol=symbol, priority=priority)
SymbolConfig(symbol, priority) ==
    [symbol |-> symbol, priority |-> priority, last_updated |-> NoTime,
     update_count |-> 0, error_count |-> 0, last_error |-> NoError]

\* A faulty variant of _is_circuit_breaker_open: the first check after the threshold
\* was reached only arms the reset time.
IsCircuitBreakerOpenArmsOnly(failures, reset_time, t) ==
    IF failures < circuit_breaker_threshold
    THEN [open |-> FALSE, failures |-> failures, reset_time |-> reset_time]
    ELSE IF reset_time = NoTime
    THEN [open |-> FALSE, failures |-> failures,
          reset_time |-> t + circuit_breaker_timeout]
    ELSE IF t >= reset_time
    THEN [open |-> FALSE, failures |-> 0, reset_time |-> NoTime]
    ELSE [open |-> TRUE, failures |-> failures, reset_time |-> reset_time]

\* BatchDataFetcher._is_circuit_breaker_open: the answer, and the failure
\* count and reset time it leaves behind.
IsCircuitBreakerOpen(failures, reset_time, t) ==
    IF failures < circuit_breaker_threshold
    THEN [open |-> FALSE, failures |-> failures, reset_time |-> reset_time]
    ELSE IF reset_time = NoTime
    THEN [open |-> TRUE, failures |-> failures,
          reset_time |-> t + circuit_breaker_timeout]
    ELSE IF t >= reset_time
    THEN [open |-> FALSE, failures |-> 0, reset_time |-> NoTime]
    ELSE [open |-> TRUE, failures |-> failures, reset_time |-> reset_time]

\* BatchDataFetcher._fetch_single_quote: an empty answer and every exception
\* of the client end as None.
FetchSingleQuote(symbol, outcome, t) ==
    IF outcome = "quote" THEN [symbol |-> symbol, timestamp |-> t] ELSE NoQuote

\* _fetch_single_quote, the call of the client: with a monitoring service it
\* goes through call() of the "bse_api" breaker, which raises without
\* calling the client while open, counts an exception of the client as a
\* failure and any answer, an empty one too, as a success.  The result is
\* the breaker afterwards, what _fetch_single_quote sees of the client, and
\* whether the breaker refused the call.
GetQuoteCall(b, monitoring, outcome, t) ==
    IF ~monitoring
    THEN [b |-> b, outcome |-> outcome, refused |-> FALSE]
    ELSE LET e == CallEntry(b, t)
         IN  IF ~e.through
             THEN [b |-> e.b, outcome |-> "raise", refused |-> TRUE]
             ELSE IF outcome = "raise"
             THEN [b |-> OnFailure(e.b, t), outcome |-> outcome,
                   refused |-> FALSE]
             ELSE [b |-> OnSuccess(e.b), outcome |-> outcome,
                   refused |-> FALSE]

\* A faulty variant of the batch limit: the list is never cut.
TruncateNever(symbols) == symbols

\* fetch_batch_quotes: symbols[:self.max_batch_size]
Truncate(symbols) ==
    IF Len(symbols) > max_batch_size
    THEN SubSeq(symbols, 1, max_batch_size)
    ELSE symbols

\* A faulty variant of the success bookkeeping: the error count is kept.
RecordSuccessKeepsErrors(watched, symbol, t) ==
    IF symbol \in DOMAIN watched
    THEN [watched EXCEPT ![symbol].last_updated = t,
                         ![symbol].update_count = @ + 1,
                         ![symbol].last_error = NoError]
    ELSE watched

\* fetch_batch_quotes: the symbol config after a successful fetch.
RecordSuccess(watched, symbol, t) ==
    IF symbol \in DOMAIN watched
    THEN [watched EXCEPT ![symbol].last_updated = t,
                         ![symbol].update_count = @ + 1,
                         ![symbol].error_count = 0,
                         ![symbol].last_error = NoError]
    ELSE watched

\* A faulty variant of the failure bookkeeping: the time of the last update
\* is forgotten.
RecordFailureForgetsUpdate(watched, symbol, last_error) ==
    IF symbol \in DOMAIN watched
    THEN [watched EXCEPT ![symbol].error_count = @ + 1,
                         ![symbol].last_error = last_error,
                         ![symbol].last_updated = NoTime]
    ELSE watched

\* fetch_batch_quotes: the symbol config after the last attempt failed.
RecordFailure(watched, symbol, last_error) ==
    IF symbol \in DOMAIN watched
    THEN [watched EXCEPT ![symbol].error_count = @ + 1,
                         ![symbol].last_error = last_error]
    ELSE watched

\* No fetch_batch_quotes call is in progress.  input is the list passed,
\* symbols the list after the cut, i the position in it and attempt the
\* value of the retry loop's variable; successful_quotes and failed_symbols
\* are the BatchResult.  History: rejected (the breaker was open), refused
\* (the attempts for the current symbol that the "bse_api" breaker refused),
\* log (one entry per symbol processed: the attempts made, how many of them
\* were refused, how it ended and the reason recorded),
\* watched0 (the watch list when the call began) and notified (the callback
\* invocations made by the call, in order).
IdleFetch ==
    [pc |-> "idle", input |-> <<>>, symbols |-> <<>>, i |-> 0, attempt |-> 0,
     successful_quotes |-> EmptyDict, failed_symbols |-> EmptyDict,
     rejected |-> FALSE, refused |-> 0, log |-> <<>>, watched0 |-> EmptyDict,
     notified |-> <<>>]

\* SymbolPriority
Priorities == {"HIGH", "MEDIUM", "LOW"}

\* get_symbols_needing_update: update_intervals (5, 15 and 30 seconds in the
\* source), in units of the clock.
update_intervals == [HIGH |-> 1, MEDIUM |-> 2, LOW |-> 3]

\* A faulty variant of get_symbols_needing_update: a symbol never updated is
\* not due.
GetSymbolsNeedingUpdateSkipsNew(watched, t) ==
    {symbol \in DOMAIN watched :
        /\ watched[symbol].last_updated # NoTime
        /\ (t - watched[symbol].last_updated)
               >= update_intervals[watched[symbol].priority]}

\* get_symbols_needing_update: the symbols of the returned list.
GetSymbolsNeedingUpdate(watched, t) ==
    {symbol \in DOMAIN watched :
        \/ watched[symbol].last_updated = NoTime
        \/ (t - watched[symbol].last_updated)
               >= update_intervals[watched[symbol].priority]}

\* get_symbols_needing_update has not been called.
NoDue == [called |-> FALSE, at |-> NoTime, watched |-> EmptyDict, symbols |-> {}]

\* No watch-list call has been made since the last batch began.
NoWatchCall == [op |-> "none", symbol |-> "", priority |-> "", result |-> FALSE]

\* BatchDataFetcher.__init__
NewFetcher(monitoring) ==
    /\ watched_symbols = EmptyDict
    /\ circuit_breaker_failures = 0
    /\ circuit_breaker_reset_time = NoTime
    /\ fetch = IdleFetch
    /\ n_batches = 0
    /\ update_callbacks = <<>>
    /\ due = NoDue
    /\ watch_ret = NoWatchCall
    /\ monitoring_service = monitoring

\* server.py constructs the fetcher without a monitoring service.
InitBF == NewFetcher(FALSE)

\* The threads that call start_periodic_cache_warming.
Starters == {"s1", "s2"}

\* No call of the integration service is in progress, none has ended.  Of
\* a call that has ended, ci_ret keeps the operation, its input, the value
\* or the result map returned, whether it raised, the symbol lists it
\* fetched, whether the lookup was a hit, and how its write-through ended.
IdleCall == [pc |-> "idle", input |-> <<>>, batches |-> 0]
NoCall == [op |-> "none", input |-> <<>>, value |-> NoQuote, results |-> EmptyDict,
           raised |-> FALSE, fetches |-> <<>>, hit |-> FALSE,
           fetch_if_missing |-> FALSE, write |-> "none"]

\* CacheIntegrationService.__init__, with an empty cache store.
InitCI ==
    /\ cache_store = EmptyDict
    /\ essential_stocks = {}
    /\ cache_hits = 0
    /\ cache_misses = 0
    /\ ci = IdleCall
    /\ ci_ret = NoCall
    /\ n_gets = 0
    /\ is_running = FALSE
    /\ starter = [c \in Starters |-> "idle"]
    /\ start_ret = [c \in Starters |-> "none"]
    /\ warming = <<>>
    /\ updating = <<>>

\* What the fetcher leaves alone.
notBF == <<cbVars, wsVars, ciVars, monitoring_service>>

\* What an attempt of the fetcher leaves alone: the "bse_api" breaker is not
\* among it.
notAttempt == <<pc, ret, enter, consec, lastEv, wsVars, ciVars,
               monitoring_service>>

\* A faulty variant of add_symbol_to_watch: a watched symbol is entered anew.
WatchListAfterAddAlways(watched, symbol, priority) ==
    Put(watched, symbol, SymbolConfig(symbol, priority))

\* add_symbol_to_watch: the watch list it leaves.
WatchListAfterAdd(watched, symbol, priority) ==
    IF symbol \in DOMAIN watched
    THEN watched
    ELSE Put(watched, symbol, SymbolConfig(symbol, priority))

\* add_symbol_to_watch(symbol, priority)
AddSymbolToWatch(symbol, priority) ==
    /\ watched_symbols' = WatchListAfterAdd(watched_symbols, symbol, priority)
    /\ watch_ret' = [op |-> "add", symbol |-> symbol, priority |-> priority,
                     result |-> symbol \notin DOMAIN watched_symbols]
    /\ UNCHANGED <<circuit_breaker_failures, circuit_breaker_reset_time,
                   fetch, n_batches, update_callbacks, due, now, notBF>>

\* remove_symbol_from_watch(symbol)
RemoveSymbolFromWatch(symbol) ==
    /\ watched_symbols' =
           IF symbol \notin DOMAIN watched_symbols
           THEN watched_symbols
           ELSE Del(watched_symbols, symbol)
    /\ watch_ret' = [op |-> "remove", symbol |-> symbol, priority |-> "",
                     result |-> symbol \in DOMAIN watched_symbols]
    /\ UNCHANGED <<circuit_breaker_failures, circuit_breaker_reset_time,
                   fetch, n_batches, update_callbacks, due, now, notBF>>

\* update_symbol_priority(symbol, priority)
UpdateSymbolPriority(symbol, priority) ==
    /\ watched_symbols' =
           IF symbol \notin DOMAIN watched_symbols
           THEN watched_symbols
           ELSE [watched_symbols EXCEPT ![symbol].priority = priority]
    /\ watch_ret' = [op |-> "update", symbol |-> symbol, priority |-> priority,
                     result |-> symbol \in DOMAIN watched_symbols]
    /\ UNCHANGED <<circuit_breaker_failures, circuit_breaker_reset_time,
                   fetch, n_batches, update_callbacks, due, now, notBF>>

\* get_symbols_needing_update(): the call, with the clock and the watch list
\* it read and the symbols it returned.
DueSymbols ==
    /\ due' = [called |-> TRUE, at |-> now, watched |-> watched_symbols,
               symbols |-> GetSymbolsNeedingUpdate(watched_symbols, now)]
    /\ UNCHANGED <<watched_symbols, circuit_breaker_failures,
                   circuit_breaker_reset_time, fetch, n_batches,
                   update_callbacks, watch_ret, now, notBF>>

\* Registered callbacks in one behaviour.
MaxCallbacks == 2

\* What a registered callback does when it is called.
CallbackKinds == {"returns", "raises"}

\* add_update_callback(callback)
AddUpdateCallback(callback) ==
    /\ Len(update_callbacks) < MaxCallbacks
    /\ update_callbacks' = Append(update_callbacks, callback)
    /\ UNCHANGED <<watched_symbols, circuit_breaker_failures,
                   circuit_breaker_reset_time, fetch, n_batches, due,
                   watch_ret, now, notBF>>

\* A faulty variant of the callback loop: it ends with the first callback
\* that raises.
NotifyCallbacksUntilRaise(callbacks, quotes) ==
    IF DOMAIN quotes # {} /\ callbacks # <<>>
    THEN LET stop == IF \E i \in DOMAIN callbacks : callbacks[i] = "raises"
                     THEN CHOOSE i \in DOMAIN callbacks :
                              /\ callbacks[i] = "raises"
                              /\ \A j \in 1..(i - 1) : callbacks[j] # "raises"
                     ELSE Len(callbacks)
         IN  [i \in 1..stop |-> [callback |-> i, quotes |-> quotes,
                                 raised |-> callbacks[i] = "raises"]]
    ELSE <<>>

\* fetch_batch_quotes: the callback loop.  The invocations made, in order;
\* an exception of a callback is caught and logged.
NotifyCallbacks(callbacks, quotes) ==
    IF DOMAIN quotes # {} /\ callbacks # <<>>
    THEN [i \in DOMAIN callbacks |-> [callback |-> i, quotes |-> quotes,
                                      raised |-> callbacks[i] = "raises"]]
    ELSE <<>>

\* fetch_batch_quotes after the retry loop: the callbacks are notified and
\* the BatchResult is returned.
Finish(f) ==
    [f EXCEPT !.pc = "returned",
              !.notified = NotifyCallbacks(update_callbacks, f.successful_quotes)]

\* fetch_batch_quotes(symbols), up to the retry loop: the breaker check, the
\* rejection of the whole list, the cut to max_batch_size.
FetchBatchQuotes(symbols) ==
    /\ fetch.pc = "idle"
    /\ n_batches < MaxBatches
    /\ n_batches' = n_batches + 1
    /\ LET o == IsCircuitBreakerOpen(circuit_breaker_failures,
                                     circuit_breaker_reset_time, now)
           begun == [IdleFetch EXCEPT !.input = symbols,
                                      !.watched0 = watched_symbols]
       IN  /\ circuit_breaker_failures' = o.failures
           /\ circuit_breaker_reset_time' = o.reset_time
           /\ fetch' =
                  IF o.open
                  THEN [begun EXCEPT
                            !.pc = "returned",
                            !.rejected = TRUE,
                            !.failed_symbols =
                                [s \in Range(symbols) |-> CircuitOpenMessage]]
                  ELSE IF Truncate(symbols) = <<>>
                  THEN Finish(begun)
                  ELSE [begun EXCEPT !.pc = "fetching",
                                     !.symbols = Truncate(symbols),
                                     !.i = 1]
    /\ watch_ret' = NoWatchCall
    /\ UNCHANGED <<watched_symbols, update_callbacks, due, now, notBF>>

\* One pass of the retry loop of fetch_batch_quotes for the current symbol:
\* a call of _fetch_single_quote and what follows it.  The sleep before the
\* next attempt is shorter than a unit of the clock.  After the last symbol
\* the call returns its BatchResult.
FetchAttempt(outcome) ==
    /\ fetch.pc = "fetching"
    /\ LET symbol == fetch.symbols[fetch.i]
           call == GetQuoteCall(breaker, monitoring_service, outcome, now)
           quote == FetchSingleQuote(symbol, call.outcome, now)
           refused == fetch.refused + (IF call.refused THEN 1 ELSE 0)
           Entry(success, reason) ==
               [symbol |-> symbol, calls |-> fetch.attempt + 1,
                success |-> success, refused |-> refused, reason |-> reason]
           Advance(f) == IF fetch.i = Len(fetch.symbols)
                         THEN Finish(f)
                         ELSE [f EXCEPT !.i = @ + 1, !.attempt = 0,
                                        !.refused = 0]
       IN  /\ breaker' = call.b
           /\ IF quote # NoQuote
              THEN /\ fetch' = Advance([fetch EXCEPT
                                   !.successful_quotes = Put(@, symbol, quote),
                                   !.log = Append(@, Entry(TRUE, NoError))])
                   /\ watched_symbols' = RecordSuccess(watched_symbols, symbol, now)
                   /\ UNCHANGED circuit_breaker_failures
              ELSE IF fetch.attempt < max_retries
              THEN /\ fetch' = [fetch EXCEPT !.attempt = @ + 1,
                                             !.refused = refused]
                   /\ UNCHANGED <<watched_symbols, circuit_breaker_failures>>
              ELSE /\ fetch' = Advance([fetch EXCEPT
                                   !.failed_symbols = Put(@, symbol, NoDataMessage),
                                   !.log = Append(@, Entry(FALSE, NoDataMessage))])
                   /\ circuit_breaker_failures' = circuit_breaker_failures + 1
                   /\ watched_symbols' =
                          RecordFailure(watched_symbols, symbol, NoDataMessage)
    /\ UNCHANGED <<circuit_breaker_reset_time, n_batches, update_callbacks,
                   due, watch_ret, now, notAttempt>>

\* get_performance_stats(), lines 427-447: the counters are read, and
\* 'circuit_breaker_open' is the result of _is_circuit_breaker_open(), which
\* arms the reset time or, once it has passed, closes the breaker.
GetPerformanceStats ==
    /\ LET o == IsCircuitBreakerOpen(circuit_breaker_failures,
                                     circuit_breaker_reset_time, now)
       IN  /\ circuit_breaker_failures' = o.failures
           /\ circuit_breaker_reset_time' = o.reset_time
    /\ UNCHANGED <<watched_symbols, fetch, n_batches, update_callbacks, due,
                   watch_ret, now, notBF>>

\* The caller takes the BatchResult.
FetchReturn ==
    /\ fetch.pc = "returned"
    /\ fetch' = IdleFetch
    /\ UNCHANGED <<watched_symbols, circuit_breaker_failures,
                   circuit_breaker_reset_time, n_batches, update_callbacks,
                   due, watch_ret, now, notBF>>

\* ------------------------------------------------------------------------
\* CacheIntegrationService (services/cache_integration_service.py) and the
\* cache store it writes to
\* ------------------------------------------------------------------------

\* get_stock_data calls in one behaviour.
MaxGets == 3

\* How a write to the cache store ends: the entry is written and True is
\* returned, False is returned, or an exception is raised.
StoreOutcomes == {"ok", "false", "raise"}

\* The outcomes of the writes of the quotes of `symbols`, one per symbol.
StoreChoices(symbols) ==
    {out \in [FetchSymbols -> StoreOutcomes] :
        \A s \in FetchSymbols : s \notin symbols => out[s] = "ok"}

\* The same for writes whose result is only logged: a write that reports
\* failure and one that raises leave the same state.
LoggedChoices(symbols) ==
    {out \in StoreChoices(symbols) : \A s \in FetchSymbols : out[s] # "false"}

\* cache_manager.get_stock_data(symbol): the cached quote, None if absent.
StoreGet(store, symbol) == Get(store, symbol, NoQuote)

\* cache_manager.refresh_stock_data(symbol, quote, publish=True): the store
\* after a write that ends with `outcome`.
RefreshStockData(store, symbol, quote, outcome) ==
    IF outcome = "ok" THEN Put(store, symbol, quote) ELSE store

\* cache_manager.invalidate_stock_data(symbol), for each of `symbols`
InvalidateStockData(store, symbols) ==
    [s \in (DOMAIN store) \ symbols |-> store[s]]

\* cache_manager.warm_cache(quotes, ttl): every quote is written, the result
\* tells for each of them whether it was.
WarmCache(store, quotes, out) ==
    [store |-> [s \in (DOMAIN store) \cup {q \in DOMAIN quotes : out[q] = "ok"} |->
                   IF s \in DOMAIN quotes /\ out[s] = "ok"
                   THEN quotes[s] ELSE store[s]],
     results |-> [s \in DOMAIN quotes |-> out[s] = "ok"]]

\* _setup_integration: the callback that the service registers with the
\* fetcher.
HandleBatchUpdatesCallback == "_handle_batch_updates"

\* _handle_batch_updates(stock_quotes): every quote is written to the store;
\* a write that raises is caught and logged.
RECURSIVE HandleBatchUpdates(_, _, _, _)
HandleBatchUpdates(store, quotes, todo, out) ==
    IF todo = {}
    THEN store
    ELSE LET s == CHOOSE x \in todo : TRUE
         IN  HandleBatchUpdates(RefreshStockData(store, s, quotes[s], out[s]),
                                quotes, todo \ {s}, out)

\* The store after the callback loop of the fetch `f`.
AfterCallbacks(store, f, callbacks, out) ==
    IF \E i \in DOMAIN f.notified :
           callbacks[f.notified[i].callback] = HandleBatchUpdatesCallback
    THEN HandleBatchUpdates(store, f.successful_quotes,
                            DOMAIN f.successful_quotes, out)
    ELSE store

\* fetch_batch_quotes called by the integration service: the call in
\* progress hands its symbols to the fetcher.
CallFetchBatchQuotes ==
    /\ ci.pc # "idle"
    /\ n_batches = ci.batches
    /\ FetchBatchQuotes(ci.input)

\* get_stock_data(symbol, fetch_if_missing), lines 196-210: the lookup, the
\* counters, and on a miss the decision to fetch.
GetStockData(symbol, fetch_if_missing) ==
    /\ ci.pc = "idle"
    /\ fetch.pc = "idle"
    /\ n_gets < MaxGets
    /\ LET stock_quote == StoreGet(cache_store, symbol)
           ended == [NoCall EXCEPT !.op = "get_stock_data",
                                   !.input = <<symbol>>,
                                   !.fetch_if_missing = fetch_if_missing]
       IN  IF stock_quote # NoQuote
           THEN /\ cache_hits' = cache_hits + 1
                /\ ci_ret' = [ended EXCEPT !.value = stock_quote, !.hit = TRUE]
                /\ n_gets' = n_gets + 1
                /\ UNCHANGED <<cache_misses, ci>>
           ELSE /\ cache_misses' = cache_misses + 1
                /\ UNCHANGED cache_hits
                /\ IF fetch_if_missing
                   THEN /\ n_batches < MaxBatches
                        /\ ci' = [pc |-> "get_stock_data", input |-> <<symbol>>,
                                  batches |-> n_batches]
                        /\ UNCHANGED <<ci_ret, n_gets>>
                   ELSE /\ ci_ret' = ended
                        /\ n_gets' = n_gets + 1
                        /\ UNCHANGED ci
    /\ UNCHANGED <<cache_store, essential_stocks, now, cbVars, wsVars, bfVars,
                   loopVars, csVars, thVars>>

\* get_stock_data, lines 212-220: the quote is written through and
\* returned; the write is not guarded, so that its exception leaves
\* get_stock_data.
GetResult(store, f, symbol, outcome) ==
    IF symbol \in DOMAIN f.successful_quotes
    THEN [store |-> RefreshStockData(store, symbol,
                                     f.successful_quotes[symbol], outcome),
          value |-> IF outcome = "raise" THEN NoQuote
                    ELSE f.successful_quotes[symbol],
          raised |-> outcome = "raise", write |-> outcome]
    ELSE [store |-> store, value |-> NoQuote, raised |-> FALSE,
          write |-> "none"]

\* get_stock_data after fetch_batch_quotes has returned.
GetStockDataReturn(cb_out, outcome) ==
    /\ ci.pc = "get_stock_data"
    /\ fetch.pc = "returned"
    /\ LET symbol == ci.input[1]
           r == GetResult(AfterCallbacks(cache_store, fetch, update_callbacks,
                                         cb_out),
                          fetch, symbol, outcome)
       IN  /\ cache_store' = r.store
           /\ ci_ret' = [NoCall EXCEPT !.op = "get_stock_data",
                                       !.input = ci.input,
                                       !.value = r.value,
                                       !.raised = r.raised,
                                       !.fetches = <<fetch.input>>,
                                       !.fetch_if_missing = TRUE,
                                       !.write = r.write]
    /\ n_gets' = n_gets + 1
    /\ ci' = IdleCall
    /\ fetch' = IdleFetch
    /\ UNCHANGED <<essential_stocks, cache_hits, cache_misses,
                   watched_symbols, circuit_breaker_failures,
                   circuit_breaker_reset_time, n_batches, update_callbacks,
                   due, watch_ret, monitoring_service, now, cbVars, wsVars,
                   loopVars, csVars, thVars>>

\* The outcomes of the writes that a loop over `symbols` makes for the
\* symbols that have a quote, one for each position of the list.
WriteChoices(symbols, quotes) ==
    {out \in [DOMAIN symbols -> StoreOutcomes] :
        \A i \in DOMAIN symbols :
            symbols[i] \notin DOMAIN quotes => out[i] = "ok"}

\* invalidate_and_refresh, lines 242-248: the loop over the input list; `st`
\* holds the store, the results so far and whether a write has raised, `i`
\* is the position in the list.  The write is not guarded: its exception
\* ends the loop and leaves invalidate_and_refresh.
RECURSIVE RefreshLoop(_, _, _, _, _)
RefreshLoop(st, symbols, i, quotes, out) ==
    IF i > Len(symbols) \/ st.raised
    THEN st
    ELSE LET symbol == symbols[i]
         IN  RefreshLoop(
                 IF symbol \in DOMAIN quotes
                 THEN IF out[i] = "raise"
                      THEN [st EXCEPT !.raised = TRUE]
                      ELSE [st EXCEPT
                              !.store = RefreshStockData(st.store, symbol,
                                                         quotes[symbol], out[i]),
                              !.results = Put(st.results, symbol, out[i] = "ok")]
                 ELSE [st EXCEPT !.results = Put(st.results, symbol, FALSE)],
                 symbols, i + 1, quotes, out)

\* invalidate_and_refresh(symbols), lines 232-239: every symbol is deleted
\* from the store and the list is handed to the fetcher.
InvalidateAndRefresh(symbols) ==
    /\ ci.pc = "idle"
    /\ fetch.pc = "idle"
    /\ n_batches < MaxBatches
    /\ cache_store' = InvalidateStockData(cache_store, Range(symbols))
    /\ ci' = [pc |-> "invalidate_and_refresh", input |-> symbols,
              batches |-> n_batches]
    /\ UNCHANGED <<essential_stocks, cache_hits, cache_misses, ci_ret, n_gets,
                   now, cbVars, wsVars, bfVars,
                   loopVars, csVars, thVars>>

\* invalidate_and_refresh after fetch_batch_quotes has returned.
InvalidateAndRefreshReturn(cb_out, out) ==
    /\ ci.pc = "invalidate_and_refresh"
    /\ fetch.pc = "returned"
    /\ LET st == RefreshLoop([store |-> AfterCallbacks(cache_store, fetch,
                                                       update_callbacks, cb_out),
                              results |-> EmptyDict, raised |-> FALSE],
                             ci.input, 1, fetch.successful_quotes, out)
       IN  /\ cache_store' = st.store
           /\ ci_ret' = [NoCall EXCEPT
                           !.op = "invalidate_and_refresh",
                           !.input = ci.input,
                           !.results = IF st.raised THEN EmptyDict ELSE st.results,
                           !.raised = st.raised,
                           !.fetches = <<fetch.input>>]
    /\ ci' = IdleCall
    /\ fetch' = IdleFetch
    /\ UNCHANGED <<essential_stocks, cache_hits, cache_misses, n_gets,
                   watched_symbols, circuit_breaker_failures,
                   circuit_breaker_reset_time, n_batches, update_callbacks,
                   due, watch_ret, monitoring_service, now, cbVars, wsVars,
                   loopVars, csVars, thVars>>

\* warm_cache_for_essentials(), lines 161-169: without essential stocks it
\* returns an empty map; otherwise the essential stocks, in the order the
\* set is iterated in, are handed to the fetcher.
WarmCacheForEssentials ==
    /\ ci.pc = "idle"
    /\ fetch.pc = "idle"
    /\ IF essential_stocks = {}
       THEN /\ ci_ret' = [NoCall EXCEPT !.op = "warm_cache_for_essentials"]
            /\ UNCHANGED ci
       ELSE /\ n_batches < MaxBatches
            /\ \E essential_list \in Orders(essential_stocks) :
                   ci' = [pc |-> "warm_cache_for_essentials",
                          input |-> essential_list, batches |-> n_batches]
            /\ UNCHANGED ci_ret
    /\ UNCHANGED <<cache_store, essential_stocks, cache_hits, cache_misses,
                   n_gets, now, cbVars, wsVars, bfVars,
                   loopVars, csVars, thVars>>

\* warm_cache_for_essentials, lines 172-182: the map that is returned is
\* the one of cache_manager.warm_cache for the quotes fetched, the empty map
\* if none was fetched.
WarmResult(store, quotes, out) ==
    IF quotes # EmptyDict
    THEN WarmCache(store, quotes, out)
    ELSE [store |-> store, results |-> EmptyDict]

\* warm_cache_for_essentials after fetch_batch_quotes has returned.
WarmCacheForEssentialsReturn(cb_out, out) ==
    /\ ci.pc = "warm_cache_for_essentials"
    /\ fetch.pc = "returned"
    /\ LET w == WarmResult(AfterCallbacks(cache_store, fetch, update_callbacks,
                                          cb_out),
                           fetch.successful_quotes, out)
       IN  /\ cache_store' = w.store
           /\ ci_ret' = [NoCall EXCEPT !.op = "warm_cache_for_essentials",
                                       !.input = ci.input,
                                       !.results = w.results,
                                       !.fetches = <<fetch.input>>]
    /\ ci' = IdleCall
    /\ fetch' = IdleFetch
    /\ UNCHANGED <<essential_stocks, cache_hits, cache_misses, n_gets,
                   watched_symbols, circuit_breaker_failures,
                   circuit_breaker_reset_time, n_batches, update_callbacks,
                   due, watch_ret, monitoring_service, now, cbVars, wsVars,
                   loopVars, csVars, thVars>>

\* add_essential_stock(symbol, priority): the result of add_symbol_to_watch
\* is not looked at.
AddEssentialStock(symbol, priority) ==
    /\ ci.pc = "idle"
    /\ fetch.pc = "idle"
    /\ essential_stocks' = essential_stocks \cup {symbol}
    /\ watched_symbols' = WatchListAfterAdd(watched_symbols, symbol, priority)
    /\ watch_ret' = [op |-> "add_essential_stock", symbol |-> symbol,
                     priority |-> priority,
                     result |-> symbol \notin DOMAIN watched_symbols]
    /\ UNCHANGED <<cache_store, cache_hits, cache_misses, ci, ci_ret, n_gets,
                   circuit_breaker_failures, circuit_breaker_reset_time,
                   fetch, n_batches, update_callbacks, due,
                   monitoring_service, now, cbVars, wsVars,
                   loopVars, csVars, thVars>>

\* remove_essential_stock(symbol)
RemoveEssentialStock(symbol) ==
    /\ ci.pc = "idle"
    /\ fetch.pc = "idle"
    /\ essential_stocks' = essential_stocks \ {symbol}
    /\ watched_symbols' = IF symbol \notin DOMAIN watched_symbols
                          THEN watched_symbols
                          ELSE Del(watched_symbols, symbol)
    /\ watch_ret' = [op |-> "remove_essential_stock", symbol |-> symbol,
                     priority |-> "",
                     result |-> symbol \in DOMAIN watched_symbols]
    /\ UNCHANGED <<cache_store, cache_hits, cache_misses, ci, ci_ret, n_gets,
                   circuit_breaker_failures, circuit_breaker_reset_time,
                   fetch, n_batches, update_callbacks, due,
                   monitoring_service, now, cbVars, wsVars,
                   loopVars, csVars, thVars>>

\* Warming loops and update loops started in one behaviour, and the
\* iterations a loop begins.
MaxLoops == 2
MaxUpdateLoops == 1
MaxIterations == 2

\* A loop thread that has just been started.  pc is where the thread is:
\* "top" (at the test of its while statement), "body" (in an iteration),
\* "sleep" (in time.sleep) or "done" (returned).  iterations counts the
\* iterations begun, erred tells whether the last one raised, signalled
\* whether stop() has been called while the thread was alive.
NewLoop == [pc |-> "top", iterations |-> 0, erred |-> FALSE, signalled |-> FALSE]

Alive(loops) == {l \in DOMAIN loops : loops[l].pc # "done"}

\* start_periodic_cache_warming, line 276: the test of is_running.  With
\* the flag set the call logs a warning and returns None.
StartTest(c) ==
    /\ starter[c] = "idle"
    /\ Len(warming) < MaxLoops
    /\ IF is_running
       THEN /\ start_ret' = [start_ret EXCEPT ![c] = "None"]
            /\ UNCHANGED starter
       ELSE /\ starter' = [starter EXCEPT ![c] = "tested"]
            /\ start_ret' = [start_ret EXCEPT ![c] = "none"]
    /\ UNCHANGED <<is_running, warming, updating,
                   cache_store, essential_stocks, cache_hits, cache_misses, ci,
                   ci_ret, n_gets, now, cbVars, wsVars, bfVars, csVars, thVars>>

\* start_periodic_cache_warming, lines 277-282: the flag is set, the thread
\* is started and returned.
StartThread(c) ==
    /\ starter[c] = "tested"
    /\ is_running' = TRUE
    /\ warming' = Append(warming, NewLoop)
    /\ starter' = [starter EXCEPT ![c] = "idle"]
    /\ start_ret' = [start_ret EXCEPT ![c] = "thread"]
    /\ UNCHANGED <<updating,
                   cache_store, essential_stocks, cache_hits, cache_misses, ci,
                   ci_ret, n_gets, now, cbVars, wsVars, bfVars, csVars, thVars>>

\* The loops after stop() has been called: the threads alive have been
\* given the signal.
Signalled(loops) ==
    [l \in DOMAIN loops |->
        IF loops[l].pc # "done" THEN [loops[l] EXCEPT !.signalled = TRUE]
        ELSE loops[l]]

\* stop(): the flag is cleared.  It is the only stop call that there is;
\* the fetcher has none.
Stop ==
    /\ is_running' = FALSE
    /\ warming' = Signalled(warming)
    /\ updating' = Signalled(updating)
    /\ UNCHANGED <<starter, start_ret,
                   cache_store, essential_stocks, cache_hits, cache_misses, ci,
                   ci_ret, n_gets, now, cbVars, wsVars, bfVars, csVars, thVars>>

\* A loop that begins an iteration.
Begin(loop) ==
    [loop EXCEPT !.pc = "body", !.iterations = @ + 1, !.erred = FALSE]

\* warming_loop, line 265: the test of `while self.is_running`.
WarmingLoopTest(l) ==
    /\ l \in DOMAIN warming
    /\ warming[l].pc = "top"
    /\ warming[l].iterations < MaxIterations
    /\ warming' = [warming EXCEPT ![l] = IF is_running THEN Begin(@)
                                         ELSE [@ EXCEPT !.pc = "done"]]
    /\ UNCHANGED <<is_running, starter, start_ret, updating,
                   cache_store, essential_stocks, cache_hits, cache_misses, ci,
                   ci_ret, n_gets, now, cbVars, wsVars, bfVars, csVars, thVars>>

\* One iteration of a loop, lines 266-274 and 405-418: the call is made
\* (`error`: it raises, which is caught and logged) and the thread goes to
\* sleep.
Iterate(loop, error) ==
    [loop EXCEPT !.pc = "sleep", !.erred = error]

\* warming_loop, lines 266-274: warm_cache_for_essentials is called if
\* there are essential stocks.
WarmingLoopBody(l, error) ==
    /\ l \in DOMAIN warming
    /\ warming[l].pc = "body"
    /\ error => essential_stocks # {}
    /\ warming' = [warming EXCEPT ![l] = Iterate(@, error)]
    /\ UNCHANGED <<is_running, starter, start_ret, updating,
                   cache_store, essential_stocks, cache_hits, cache_misses, ci,
                   ci_ret, n_gets, now, cbVars, wsVars, bfVars, csVars, thVars>>

\* warming_loop: time.sleep(interval) returns.
WarmingLoopWake(l) ==
    /\ l \in DOMAIN warming
    /\ warming[l].pc = "sleep"
    /\ warming' = [warming EXCEPT ![l].pc = "top"]
    /\ UNCHANGED <<is_running, starter, start_ret, updating,
                   cache_store, essential_stocks, cache_hits, cache_misses, ci,
                   ci_ret, n_gets, now, cbVars, wsVars, bfVars, csVars, thVars>>

\* schedule_periodic_updates(interval): every call starts a thread.
SchedulePeriodicUpdates ==
    /\ Len(updating) < MaxUpdateLoops
    /\ updating' = Append(updating, NewLoop)
    /\ UNCHANGED <<is_running, starter, start_ret, warming,
                   cache_store, essential_stocks, cache_hits, cache_misses, ci,
                   ci_ret, n_gets, now, cbVars, wsVars, bfVars, csVars, thVars>>

\* update_loop, line 404: `while True`.
UpdateLoopTest(l) ==
    /\ l \in DOMAIN updating
    /\ updating[l].pc = "top"
    /\ updating[l].iterations < MaxIterations
    /\ updating' = [updating EXCEPT ![l] = Begin(@)]
    /\ UNCHANGED <<is_running, starter, start_ret, warming,
                   cache_store, essential_stocks, cache_hits, cache_misses, ci,
                   ci_ret, n_gets, now, cbVars, wsVars, bfVars, csVars, thVars>>

\* update_loop, lines 405-418: the due symbols are fetched.  KeyboardInterrupt
\* is raised in the main thread only, never in this one.
UpdateLoopBody(l, error) ==
    /\ l \in DOMAIN updating
    /\ updating[l].pc = "body"
    /\ updating' = [updating EXCEPT ![l] = Iterate(@, error)]
    /\ UNCHANGED <<is_running, starter, start_ret, warming,
                   cache_store, essential_stocks, cache_hits, cache_misses, ci,
                   ci_ret, n_gets, now, cbVars, wsVars, bfVars, csVars, thVars>>

\* update_loop: time.sleep(interval) returns.
UpdateLoopWake(l) ==
    /\ l \in DOMAIN updating
    /\ updating[l].pc = "sleep"
    /\ updating' = [updating EXCEPT ![l].pc = "top"]
    /\ UNCHANGED <<is_running, starter, start_ret, warming,
                   cache_store, essential_stocks, cache_hits, cache_misses, ci,
                   ci_ret, n_gets, now, cbVars, wsVars, bfVars, csVars, thVars>>

\* The entry of a symbol in the cache store expires (its TTL has run out).
Expire(symbol) ==
    /\ ci.pc = "idle"
    /\ symbol \in DOMAIN cache_store
    /\ cache_store' = Del(cache_store, symbol)
    /\ UNCHANGED <<essential_stocks, cache_hits, cache_misses, ci, ci_ret,
                   n_gets, now, cbVars, wsVars, bfVars,
                   loopVars, csVars, thVars>>

\* ------------------------------------------------------------------------
\* CompressionService (services/compression_service.py), field aliases
\* ------------------------------------------------------------------------

\* A value of a dict, with its Python type.  A float is kept in units of
\* 1/10000, so that round(value, 2) and round(value, 3) have something to
\* cut off.
Value(type, v) == [type |-> type, v |-> v]
NoneValue == Value("NoneType", None)
Float(v) == Value("float", v)

\* The number of decimals that a float of the model carries.
Decimals == 4

RECURSIVE Pow10(_)
Pow10(n) == IF n = 0 THEN 1 ELSE 10 * Pow10(n - 1)

\* round(value, ndigits) of a float: to the nearest multiple of
\* 10^-ndigits, a tie to the even one.
Round(v, ndigits) ==
    LET unit == Pow10(Decimals - ndigits)
        q == v \div unit
        r == v % unit
    IN  IF 2 * r < unit THEN q * unit
        ELSE IF 2 * r > unit THEN (q + 1) * unit
        ELSE IF q % 2 = 0 THEN q * unit ELSE (q + 1) * unit

\* field_mapping of _optimize_data_structure.
field_mapping ==
    [symbol |-> "s", company_name |-> "cn", current_price |-> "cp",
     change |-> "c", percent_change |-> "pc", volume |-> "v",
     timestamp |-> "t", bid_price |-> "bp", ask_price |-> "ap",
     high |-> "h", low |-> "l"]

\* reverse_mapping of _restore_data_structure.
reverse_mapping ==
    [s |-> "symbol", cn |-> "company_name", cp |-> "current_price",
     c |-> "change", pc |-> "percent_change", v |-> "volume",
     t |-> "timestamp", bp |-> "bid_price", ap |-> "ask_price",
     h |-> "high", l |-> "low"]

\* The keys whose floats are rounded to 2 decimals.
PriceFields ==
    {"current_price", "change", "bid_price", "ask_price", "high", "low"}

\* _optimize_data_structure, lines 277-286: the value kept for a key.
OptimizedValue(key, value) ==
    IF value.type = "float"
    THEN IF key \in PriceFields THEN Float(Round(value.v, 2))
         ELSE IF key = "percent_change" THEN Float(Round(value.v, 3))
         ELSE value
    ELSE value

\* dict.items() of a dict in insertion order: the keys one after the other.
\* A later key overwrites an earlier one of the same short name.
RECURSIVE Renamed(_, _, _, _)
Renamed(d, keys, mapping, acc) ==
    IF keys = <<>> THEN acc
    ELSE Renamed(d, Tail(keys), mapping,
                 Put(acc, Get(mapping, Head(keys), Head(keys)), d[Head(keys)]))

\* The keys of a dict of the model, in the order of to_dict().
FieldOrder ==
    <<"symbol", "company_name", "current_price", "change", "percent_change",
      "volume", "timestamp", "bid_price", "ask_price", "high", "low",
      "exchange">>

Items(d) == SelectSeq(FieldOrder, LAMBDA k : k \in DOMAIN d)

\* _optimize_data_structure(data): short keys, rounded floats, no None.
OptimizeDataStructure(d) ==
    LET kept == {k \in DOMAIN d : d[k].type # "NoneType"}
        values == [k \in kept |-> OptimizedValue(k, d[k])]
    IN  Renamed(values, Items(values), field_mapping, EmptyDict)

\* A faulty variant of _restore_data_structure: 'c' is taken for
\* current_price.
RestoreDataStructureWrongKey(d) ==
    LET short == SelectSeq(<<"s", "cn", "cp", "c", "pc", "v", "t", "bp", "ap",
                             "h", "l", "exchange">>,
                           LAMBDA k : k \in DOMAIN d)
    IN  Renamed(d, short,
                [reverse_mapping EXCEPT !.c = "current_price"], EmptyDict)

\* _restore_data_structure(optimized_data): the long keys again; a key that
\* is not in reverse_mapping is kept.
RestoreDataStructure(d) ==
    LET short == SelectSeq(<<"s", "cn", "cp", "c", "pc", "v", "t", "bp", "ap",
                             "h", "l", "exchange">>,
                           LAMBDA k : k \in DOMAIN d)
    IN  Renamed(d, short, reverse_mapping, EmptyDict)

\* StockQuote.to_dict() of the quotes of the model: every key of the
\* dataclass is there, an optional field that is absent is None.
QuoteFields ==
    {[symbol |-> Value("str", "R"), company_name |-> Value("str", "Reliance"),
      current_price |-> Float(cp), change |-> Float(c),
      percent_change |-> Float(p), volume |-> Value("int", 100),
      timestamp |-> Value("str", "t1"), bid_price |-> bp, ask_price |-> ap,
      high |-> h, low |-> l] :
        cp \in {12300, 12346}, c \in {200, 0 - 1250, 3750},
        p \in {1230, 1234, 1235},
        bp \in {NoneValue, Float(12300)}, ap \in {NoneValue, Float(12500)},
        h \in {NoneValue, Float(12400)}, l \in {NoneValue, Float(12200)}}

\* A dict that is not a quote: it has a key that field_mapping does not know.
WithExchange(d) == Put(d, "exchange", Value("str", "BSE"))

InitCS ==
    /\ cs_pc = "data"
    /\ original_data = CHOOSE d \in QuoteFields :
                  d.current_price = Float(12300) /\ d.change = Float(200)
                  /\ d.percent_change = Float(1230)
                  /\ \A k \in {"bid_price", "ask_price", "high", "low"} :
                         d[k].type = "NoneType"
    /\ optimized_data = EmptyDict
    /\ restored_data = EmptyDict

\* What the codec leaves alone.
notCS == <<now, cbVars, wsVars, bfVars, cache_store, essential_stocks,
           cache_hits, cache_misses, ci, ci_ret, n_gets, loopVars, thVars>>

\* compress_stock_data, line 47: the dict is optimized.
Optimize ==
    /\ cs_pc = "data"
    /\ optimized_data' = OptimizeDataStructure(original_data)
    /\ cs_pc' = "optimized"
    /\ UNCHANGED <<original_data, restored_data, notCS>>

\* decompress_stock_data, line 104: the unpacked dict is restored.
Restore ==
    /\ cs_pc = "optimized"
    /\ restored_data' = RestoreDataStructure(optimized_data)
    /\ cs_pc' = "restored"
    /\ UNCHANGED <<original_data, optimized_data, notCS>>

\* ------------------------------------------------------------------------
\* WebSocketManager: the event handlers as threads.  Socket.IO runs every
\* event handler in a thread of its own; the manager holds no lock, so the
\* statements of handlers that run at once interleave.
\* ------------------------------------------------------------------------

\* Handlers started in one behaviour.
MaxHandlers == 3

\* A handler that has been dispatched: `visited` are the symbols its loop has
\* been through, `cur` the symbol the loop is at, `size` and `snapshot` the
\* set that _cleanup_client iterates as it was when the loop began, `error`
\* the exception that ended the handler.
NewHandler(op, c, symbols) ==
    [op |-> op, client |-> c, symbols |-> symbols, pc |-> "start",
     new_symbols |-> {}, visited |-> {}, cur |-> "", size |-> 0,
     snapshot |-> {}, error |-> "none"]

InitTH ==
    /\ handlers = <<>>
    /\ fetchers = <<>>
    /\ delivered = <<>>
    /\ writes = <<>>
    /\ loop_pc = "fetch"

\* What the handlers of the registry leave alone.
notHandlers == <<client_capabilities, pending_batches, batch_config,
                 previous_data_cache, emits, encs, n_updates, message_queue,
                 n_messages, pass, raised, escaped, now, cbVars, bfVars,
                 cache_store, essential_stocks, cache_hits, cache_misses, ci,
                 ci_ret, n_gets, loopVars, csVars, fetchers, delivered,
                 writes, loop_pc>>

\* An event of a connected client is dispatched to a handler thread.  A
\* session is disconnected once.
Dispatch(op, c, symbols) ==
    /\ Len(handlers) < MaxHandlers
    /\ c \in connected_clients
    /\ op = "disconnect" =>
          \A h \in DOMAIN handlers :
              ~(handlers[h].op = "disconnect" /\ handlers[h].client = c)
    /\ handlers' = Append(handlers, NewHandler(op, c, symbols))
    /\ UNCHANGED <<connected_clients, client_subscriptions, symbol_subscribers,
                   notHandlers>>

\* The handler goes on to `pc` with the local variables `local`.
Goto(h, pc0, local) ==
    handlers' = [handlers EXCEPT ![h] = [local EXCEPT !.pc = pc0]]

\* The handler ends with an exception that leaves it.
Raise(h, error) ==
    handlers' = [handlers EXCEPT ![h] = [@ EXCEPT !.pc = "done", !.error = error]]

\* handle_client_subscription, one statement at a time.
\*   start   lines 86-88: the test of connected_clients
\*   ensure  lines 91-92: the client's entry is created if it is missing
\*   diff    line 94: new_symbols
\*   update  line 95: the client's set is updated
\*   reverse lines 98-101: one symbol of new_symbols after the other
\* The closing send_to_client (lines 106-110) changes neither map.
SubscribeStep(h) ==
    LET t == handlers[h]
        c == t.client
    IN  /\ h \in DOMAIN handlers
        /\ t.op = "subscribe"
        /\ \/ /\ t.pc = "start"
              /\ Goto(h, IF c \in connected_clients THEN "ensure" ELSE "done", t)
              /\ UNCHANGED <<client_subscriptions, symbol_subscribers>>
           \/ /\ t.pc = "ensure"
              /\ client_subscriptions' =
                    IF c \in DOMAIN client_subscriptions
                    THEN client_subscriptions
                    ELSE Put(client_subscriptions, c, {})
              /\ Goto(h, "diff", t)
              /\ UNCHANGED symbol_subscribers
           \/ /\ t.pc = "diff"
              /\ IF c \in DOMAIN client_subscriptions
                 THEN Goto(h, "update",
                           [t EXCEPT !.new_symbols =
                                t.symbols \ client_subscriptions[c]])
                 ELSE Raise(h, "KeyError")
              /\ UNCHANGED <<client_subscriptions, symbol_subscribers>>
           \/ /\ t.pc = "update"
              /\ IF c \in DOMAIN client_subscriptions
                 THEN /\ client_subscriptions' =
                            Put(client_subscriptions, c,
                                client_subscriptions[c] \cup t.symbols)
                      /\ Goto(h, "reverse", t)
                 ELSE /\ Raise(h, "KeyError")
                      /\ UNCHANGED client_subscriptions
              /\ UNCHANGED symbol_subscribers
           \/ /\ t.pc = "reverse"
              /\ IF t.new_symbols \ t.visited = {}
                 THEN /\ Goto(h, "done", t)
                      /\ UNCHANGED symbol_subscribers
                 ELSE \E s \in t.new_symbols \ t.visited :
                        /\ symbol_subscribers' =
                              Put(symbol_subscribers, s,
                                  Get(symbol_subscribers, s, {}) \cup {c})
                        /\ Goto(h, "reverse", [t EXCEPT !.visited = @ \cup {s}])
              /\ UNCHANGED client_subscriptions
        /\ UNCHANGED <<connected_clients, notHandlers>>

\* _unsubscribe_client_from_symbols, one statement at a time.
\*   start    lines 114-115: the test of client_subscriptions
\*   forward  line 119: the symbol is discarded from the client's set
\*   backward lines 122-126: the client is discarded from the symbol's set
UnsubscribeStep(h) ==
    LET t == handlers[h]
        c == t.client
    IN  /\ h \in DOMAIN handlers
        /\ t.op = "unsubscribe"
        /\ \/ /\ t.pc = "start"
              /\ Goto(h, IF c \in DOMAIN client_subscriptions THEN "forward"
                         ELSE "done", t)
              /\ UNCHANGED <<client_subscriptions, symbol_subscribers>>
           \/ /\ t.pc = "forward"
              /\ IF t.symbols \ t.visited = {}
                 THEN /\ Goto(h, "done", t)
                      /\ UNCHANGED client_subscriptions
                 ELSE IF c \notin DOMAIN client_subscriptions
                 THEN /\ Raise(h, "KeyError")
                      /\ UNCHANGED client_subscriptions
                 ELSE \E s \in t.symbols \ t.visited :
                        /\ client_subscriptions' =
                              Put(client_subscriptions, c,
                                  client_subscriptions[c] \ {s})
                        /\ Goto(h, "backward", [t EXCEPT !.cur = s])
              /\ UNCHANGED symbol_subscribers
           \/ /\ t.pc = "backward"
              /\ symbol_subscribers' =
                    DiscardSubscriber(symbol_subscribers, c, {t.cur})
              /\ Goto(h, "forward", [t EXCEPT !.visited = @ \cup {t.cur}])
              /\ UNCHANGED client_subscriptions
        /\ UNCHANGED <<connected_clients, notHandlers>>

\* handle_disconnect -> _cleanup_client, one statement at a time.
\*   start   line 216: the client is discarded from connected_clients
\*   test    lines 219-220: subscribed_symbols is the client's set itself,
\*           not a copy
\*   iterate lines 221-226: one symbol after the other; the iterator of a
\*           set raises RuntimeError when the set has changed its size, and
\*           may miss an element that came in while another went out
\*   delete  line 228: the client's entry is deleted
DisconnectStep(h) ==
    LET t == handlers[h]
        c == t.client
    IN  /\ h \in DOMAIN handlers
        /\ t.op = "disconnect"
        /\ \/ /\ t.pc = "start"
              /\ connected_clients' = connected_clients \ {c}
              /\ Goto(h, "test", t)
              /\ UNCHANGED <<client_subscriptions, symbol_subscribers>>
           \/ /\ t.pc = "test"
              /\ IF c \in DOMAIN client_subscriptions
                 THEN Goto(h, "iterate",
                           [t EXCEPT !.size = Cardinality(client_subscriptions[c]),
                                     !.snapshot = client_subscriptions[c]])
                 ELSE Goto(h, "done", t)
              /\ UNCHANGED <<connected_clients, client_subscriptions,
                             symbol_subscribers>>
           \/ /\ t.pc = "iterate"
              /\ LET live == client_subscriptions[c]
                 IN  IF Cardinality(live) # t.size
                     THEN /\ Raise(h, "RuntimeError")
                          /\ UNCHANGED symbol_subscribers
                     ELSE \/ /\ live \ t.visited = {} \/ live # t.snapshot
                             /\ Goto(h, "delete", t)
                             /\ UNCHANGED symbol_subscribers
                          \/ \E s \in live \ t.visited :
                                /\ symbol_subscribers' =
                                      DiscardSubscriber(symbol_subscribers, c, {s})
                                /\ Goto(h, "iterate",
                                        [t EXCEPT !.visited = @ \cup {s}])
              /\ UNCHANGED <<connected_clients, client_subscriptions>>
           \/ /\ t.pc = "delete"
              /\ client_subscriptions' = Del(client_subscriptions, c)
              /\ Goto(h, "done", t)
              /\ UNCHANGED <<connected_clients, symbol_subscribers>>
        /\ UNCHANGED notHandlers

\* ------------------------------------------------------------------------
\* BatchDataFetcher and CacheIntegrationService: the callers of
\* fetch_batch_quotes as threads.  The update loop runs in a thread of its
\* own and every request in another; neither class holds a lock and the
\* fetcher keeps no record of the symbols being fetched.
\* ------------------------------------------------------------------------

\* Threads that call fetch_batch_quotes in one behaviour.
MaxFetchers == 2

\* A caller of fetch_batch_quotes: `op` is the caller, `input` the symbol
\* list it passes, the rest the locals of fetch_batch_quotes.
NewFetch(op, input, pc0) ==
    [op |-> op, input |-> input, pc |-> pc0, symbols |-> <<>>, i |-> 0,
     attempt |-> 0, successful_quotes |-> EmptyDict,
     failed_symbols |-> EmptyDict, rejected |-> FALSE]

\* What the callers of fetch_batch_quotes leave alone.
notFetchers == <<now, cbVars, wsVars, essential_stocks, ci, ci_ret, n_gets,
                 loopVars, csVars, handlers, loop_pc, fetch, n_batches,
                 update_callbacks, due, watch_ret, monitoring_service>>

\* The fetcher and the store, which a step of a thread may change.
Untouched(changed) ==
    /\ "store" \notin changed => UNCHANGED <<cache_store, writes>>
    /\ "counters" \notin changed => UNCHANGED <<cache_hits, cache_misses>>
    /\ "watch" \notin changed => UNCHANGED watched_symbols
    /\ "breaker" \notin changed =>
          UNCHANGED <<circuit_breaker_failures, circuit_breaker_reset_time>>
    /\ "delivered" \notin changed => UNCHANGED delivered
    /\ UNCHANGED notFetchers

\* A thread is started for `op`.
Start(op, input, pc0) ==
    /\ Len(fetchers) < MaxFetchers
    /\ fetchers' = Append(fetchers, NewFetch(op, input, pc0))
    /\ Untouched({})

\* A request thread calls get_stock_data(symbol).
StartGet(symbol) ==
    /\ symbol \in FetchSymbols
    /\ Start("get_stock_data", <<symbol>>, "lookup")

\* A request thread calls invalidate_and_refresh(symbols).
StartRefresh(symbols) ==
    /\ symbols # <<>>
    /\ Start("invalidate_and_refresh", symbols, "invalidate")

\* warm_cache_for_essentials(), lines 161-169: the essential stocks as a list.
StartWarm ==
    /\ essential_stocks # {}
    /\ \E input \in Orders(essential_stocks) :
          Start("warm_cache_for_essentials", input, "enter")

\* update_loop, lines 406-411: the symbols that are due, if there are any.
StartUpdate ==
    /\ GetSymbolsNeedingUpdate(watched_symbols, now) # {}
    /\ \E input \in Orders(GetSymbolsNeedingUpdate(watched_symbols, now)) :
          Start("update_loop", input, "enter")

\* The thread goes on with the locals `local`.
Continue(f, local) == fetchers' = [fetchers EXCEPT ![f] = local]

\* get_stock_data, lines 196-210: the lookup.
Lookup(f) ==
    /\ f \in DOMAIN fetchers
    /\ fetchers[f].pc = "lookup"
    /\ IF StoreGet(cache_store, fetchers[f].input[1]) # NoQuote
       THEN /\ cache_hits' = cache_hits + 1
            /\ UNCHANGED cache_misses
            /\ Continue(f, [fetchers[f] EXCEPT !.pc = "done"])
       ELSE /\ cache_misses' = cache_misses + 1
            /\ UNCHANGED cache_hits
            /\ Continue(f, [fetchers[f] EXCEPT !.pc = "enter"])
    /\ Untouched({"counters"})

\* invalidate_and_refresh, lines 235-236.
Invalidate(f) ==
    /\ f \in DOMAIN fetchers
    /\ fetchers[f].pc = "invalidate"
    /\ cache_store' = InvalidateStockData(cache_store, Range(fetchers[f].input))
    /\ UNCHANGED writes
    /\ Continue(f, [fetchers[f] EXCEPT !.pc = "enter"])
    /\ Untouched({"store"})

\* fetch_batch_quotes, lines 284-296: the breaker check and the cut.
Enter(f) ==
    /\ f \in DOMAIN fetchers
    /\ fetchers[f].pc = "enter"
    /\ LET t == fetchers[f]
           o == IsCircuitBreakerOpen(circuit_breaker_failures,
                                     circuit_breaker_reset_time, now)
       IN  /\ circuit_breaker_failures' = o.failures
           /\ circuit_breaker_reset_time' = o.reset_time
           /\ Continue(f,
                 IF o.open
                 THEN [t EXCEPT !.pc = "write", !.rejected = TRUE,
                                !.failed_symbols =
                                    [s \in Range(t.input) |-> CircuitOpenMessage]]
                 ELSE IF Truncate(t.input) = <<>>
                 THEN [t EXCEPT !.pc = "notify"]
                 ELSE [t EXCEPT !.pc = "call", !.symbols = Truncate(t.input),
                                !.i = 1])
    /\ Untouched({"breaker"})

\* _fetch_single_quote, line 249: the client is called for the symbol.
AdapterCall(f) ==
    /\ f \in DOMAIN fetchers
    /\ fetchers[f].pc = "call"
    /\ Continue(f, [fetchers[f] EXCEPT !.pc = "in_flight"])
    /\ Untouched({})

\* fetch_batch_quotes, lines 303-341: the client has answered.  The n-th
\* quote that the client returns carries the number n where the source
\* carries a timestamp.
AdapterReturn(f, outcome) ==
    /\ f \in DOMAIN fetchers
    /\ fetchers[f].pc = "in_flight"
    /\ LET t == fetchers[f]
           symbol == t.symbols[t.i]
           quote == FetchSingleQuote(symbol, outcome, Len(delivered) + 1)
           Advance(u) == IF t.i = Len(t.symbols)
                         THEN [u EXCEPT !.pc = "notify"]
                         ELSE [u EXCEPT !.pc = "call", !.i = @ + 1,
                                        !.attempt = 0]
       IN  IF quote # NoQuote
           THEN /\ delivered' = Append(delivered, quote)
                /\ Continue(f, Advance([t EXCEPT
                                  !.successful_quotes = Put(@, symbol, quote)]))
                /\ watched_symbols' = RecordSuccess(watched_symbols, symbol, now)
                /\ Untouched({"delivered", "watch"})
           ELSE IF t.attempt < max_retries
           THEN /\ Continue(f, [t EXCEPT !.pc = "call", !.attempt = @ + 1])
                /\ Untouched({})
           ELSE /\ Continue(f, Advance([t EXCEPT
                                  !.failed_symbols = Put(@, symbol, NoDataMessage)]))
                /\ circuit_breaker_failures' = circuit_breaker_failures + 1
                /\ UNCHANGED circuit_breaker_reset_time
                /\ watched_symbols' =
                       RecordFailure(watched_symbols, symbol, NoDataMessage)
                /\ Untouched({"breaker", "watch"})

\* The quotes of `quotes` that a loop of `by` over `symbols` writes, in
\* order.
RECURSIVE Written(_, _, _)
Written(quotes, symbols, by) ==
    IF symbols = <<>> THEN <<>>
    ELSE (IF Head(symbols) \in DOMAIN quotes
          THEN <<[quote |-> quotes[Head(symbols)], by |-> by]>> ELSE <<>>)
         \o Written(quotes, Tail(symbols), by)

\* The keys of a dict in the order in which a loop over it visits them.
ItemOrder(d) == CHOOSE o \in Orders(DOMAIN d) : TRUE

\* fetch_batch_quotes, lines 356-362: the callbacks; the one that the
\* integration service registered writes every quote to the store.
Notify(f) ==
    /\ f \in DOMAIN fetchers
    /\ fetchers[f].pc = "notify"
    /\ LET t == fetchers[f]
           called == /\ DOMAIN t.successful_quotes # {}
                     /\ \E i \in DOMAIN update_callbacks :
                           update_callbacks[i] = HandleBatchUpdatesCallback
       IN  /\ cache_store' =
                 IF called
                 THEN HandleBatchUpdates(cache_store, t.successful_quotes,
                                         DOMAIN t.successful_quotes,
                                         [s \in FetchSymbols |-> "ok"])
                 ELSE cache_store
           /\ writes' =
                 IF called
                 THEN writes \o Written(t.successful_quotes,
                                        ItemOrder(t.successful_quotes),
                                        HandleBatchUpdatesCallback)
                 ELSE writes
           /\ Continue(f, [t EXCEPT !.pc = "write"])
    /\ Untouched({"store"})

\* The store after the caller of fetch_batch_quotes has taken the result:
\* get_stock_data line 216, invalidate_and_refresh lines 242-248,
\* warm_cache_for_essentials lines 172-176; update_loop writes nothing.
RECURSIVE WriteEach(_, _, _)
WriteEach(store, quotes, symbols) ==
    IF symbols = <<>> THEN store
    ELSE WriteEach(IF Head(symbols) \in DOMAIN quotes
                   THEN RefreshStockData(store, Head(symbols),
                                         quotes[Head(symbols)], "ok")
                   ELSE store,
                   quotes, Tail(symbols))

CallerWrites(store, t) ==
    IF t.op \in {"get_stock_data", "invalidate_and_refresh"}
    THEN WriteEach(store, t.successful_quotes, t.input)
    ELSE IF t.op = "warm_cache_for_essentials" /\ DOMAIN t.successful_quotes # {}
    THEN WarmCache(store, t.successful_quotes, [s \in FetchSymbols |-> "ok"]).store
    ELSE store

\* The quotes that the caller of fetch_batch_quotes writes, in order.
CallerWritten(t) ==
    IF t.op \in {"get_stock_data", "invalidate_and_refresh"}
    THEN Written(t.successful_quotes, t.input, t.op)
    ELSE IF t.op = "warm_cache_for_essentials"
    THEN Written(t.successful_quotes, ItemOrder(t.successful_quotes), t.op)
    ELSE <<>>

\* The caller takes the BatchResult and writes what it writes.
Write(f) ==
    /\ f \in DOMAIN fetchers
    /\ fetchers[f].pc = "write"
    /\ cache_store' = CallerWrites(cache_store, fetchers[f])
    /\ writes' = writes \o CallerWritten(fetchers[f])
    /\ Continue(f, [fetchers[f] EXCEPT !.pc = "done"])
    /\ Untouched({"store"})

\* ------------------------------------------------------------------------
\* BatchDataFetcher.schedule_periodic_updates: the loop without an end
\* ------------------------------------------------------------------------

\* The order in which the symbols are added to the watch list, which is the
\* order in which a loop over the dict visits them: one symbol more than a
\* batch takes.
WatchOrder == <<"X", "Y", "Z">>

\* The update counts that are told apart; a larger count is kept as this one.
MaxCount == 2

\* The age from which a symbol is due whatever its priority.
MaxAge == update_intervals.LOW

\* get_symbols_needing_update, lines 383-391: the list it returns.
DueList(watched, t) ==
    SelectSeq(WatchOrder,
              LAMBDA symbol : symbol \in GetSymbolsNeedingUpdate(watched, t))

\* fetch_batch_quotes with a client that answers every call with a quote:
\* the watch list after the symbols of the list have been fetched.
RECURSIVE FetchedAll(_, _, _)
FetchedAll(watched, symbols, t) ==
    IF symbols = <<>> THEN watched
    ELSE FetchedAll(RecordSuccess(watched, Head(symbols), t), Tail(symbols), t)

\* The watch list after time.sleep(interval), with interval = 5 seconds,
\* one unit of the clock.  The loop looks at the differences now - last_updated only, so the clock
\* is kept where it is and every last_updated is moved back by one unit; an
\* age beyond MaxAge and a count beyond MaxCount are kept as MaxAge and
\* MaxCount.
Slept(watched, t) ==
    [s \in DOMAIN watched |->
        [watched[s] EXCEPT
            !.last_updated = IF @ = NoTime THEN NoTime
                             ELSE IF @ - 1 < t - MaxAge THEN t - MaxAge
                             ELSE @ - 1,
            !.update_count = IF @ > MaxCount THEN MaxCount ELSE @]]

\* add_symbol_to_watch for the next symbol of WatchOrder.
WatchNext(priority) ==
    \E i \in DOMAIN WatchOrder :
        /\ WatchOrder[i] \notin DOMAIN watched_symbols
        /\ \A j \in 1..(i - 1) : WatchOrder[j] \in DOMAIN watched_symbols
        /\ AddSymbolToWatch(WatchOrder[i], priority)

\* What the endless loop leaves alone.
notLoop == <<circuit_breaker_failures, circuit_breaker_reset_time, fetch,
            n_batches, update_callbacks, due, watch_ret, monitoring_service,
            now, cbVars, wsVars, cache_store, essential_stocks, cache_hits, cache_misses, ci,
            ci_ret, n_gets, loopVars, csVars, handlers, fetchers, delivered,
            writes>>

\* update_loop, lines 404-411: the due symbols are fetched.  Every call of
\* the client succeeds, so the failure count of the fetcher's breaker stays
\* 0.
UpdateIteration ==
    /\ loop_pc = "fetch"
    /\ fetch.pc = "idle"
    /\ circuit_breaker_failures = 0
    /\ LET symbols_to_update == DueList(watched_symbols, now)
       IN  watched_symbols' =
               IF symbols_to_update # <<>>
               THEN FetchedAll(watched_symbols, Truncate(symbols_to_update),
                               now)
               ELSE watched_symbols
    /\ loop_pc' = "sleep"
    /\ UNCHANGED notLoop

\* update_loop, line 413: time.sleep(interval), and the next iteration.
UpdateSleep ==
    /\ loop_pc = "sleep"
    /\ watched_symbols' = Slept(watched_symbols, now)
    /\ loop_pc' = "fetch"
    /\ UNCHANGED notLoop

vars == <<now, cbVars, wsVars, bfVars, ciVars>>

Init == now = 0 /\ InitCB /\ InitWS /\ InitBF /\ InitCI /\ InitCS /\ InitTH

\* Concurrent callers of one breaker (no lock in CircuitBreaker).
NextCB ==
    \/ \E c \in Callers : CallBegin(c)
    \/ \E c \in Callers : CallSucceed(c)
    \/ \E c \in Callers : CallFail(c)
    \/ Tick

SpecCB == Init /\ [][NextCB]_vars

\* One caller at a time: a call() starts only when no other is in progress.
CallBeginSeq(c) ==
    /\ \A d \in Callers : pc[d] = "idle"
    /\ CallBegin(c)

NextCBSeq ==
    \/ \E c \in Callers : CallBeginSeq(c)
    \/ \E c \in Callers : CallSucceed(c)
    \/ \E c \in Callers : CallFail(c)
    \/ Tick

SpecCBSeq == Init /\ [][NextCBSeq]_vars

\* The subscription registry: connect, subscribe, unsubscribe and disconnect
\* events of three clients, each handler run to completion.
NextWS ==
    \/ \E c \in RegistryClients : Connect(c)
    \/ \E c \in RegistryClients : Disconnect(c)
    \/ \E c \in RegistryClients, symbols \in SUBSET Symbols : Subscribe(c, symbols)
    \/ \E c \in RegistryClients, symbols \in SUBSET Symbols : Unsubscribe(c, symbols)

SpecWS == Init /\ [][NextWS]_vars

\* A client declares its capabilities once, after connecting.
NegotiateOnce(c, capabilities) ==
    /\ c \notin DOMAIN client_capabilities
    /\ Negotiate(c, capabilities)

\* The broadcaster: two clients connect, subscribe to "R" and declare their
\* capabilities while quote updates for "R" are fanned out; the n-th update
\* carries timestamp n.
NextOpt ==
    \/ \E c \in Clients : Connect(c)
    \/ \E c \in Clients : Subscribe(c, {"R"})
    \/ \E c \in Clients, capabilities \in Capabilities : NegotiateOnce(c, capabilities)
    \/ \E q \in {x \in Quotes : x.timestamp = n_updates + 1}, force \in BOOLEAN,
          fails \in FlushFailChoices("R") :
            QuoteUpdate("R", q, force, fails)
    \/ FlushAllBatches

SpecOpt == Init /\ [][NextOpt]_vars

\* The pending batches: clients that declared batch support come and go
\* while quote updates are fanned out, the batch configuration is changed
\* and all batches are flushed on request.
DisconnectConnected(c) ==
    /\ c \in connected_clients
    /\ Disconnect(c)

BatchCapabilities ==
    {capabilities \in Capabilities :
        /\ capabilities.supports_batch_updates
        /\ ~capabilities.supports_delta_updates}

BatchQuotes(n) ==
    {q \in Quotes : q.timestamp = n /\ q.current_price = 1 /\ q.bid_price = 1}

\* The events that the Socket.IO server dispatches and the calls that the
\* rest of the application makes.  Nothing in the source calls
\* flush_all_batches, on a timer or otherwise.
Events ==
    \/ \E c \in Clients : Connect(c)
    \/ \E c \in Clients : DisconnectConnected(c)
    \/ \E c \in Clients : Subscribe(c, {"R"})
    \/ \E c \in Clients, capabilities \in BatchCapabilities :
           NegotiateOnce(c, capabilities)
    \/ \E symbol \in Symbols, q \in BatchQuotes(n_updates + 1) :
           \E fails \in FlushFailChoices(symbol) :
               QuoteUpdate(symbol, q, FALSE, fails)
    \/ \E config \in BatchConfigs : UpdateBatchConfig(config)

NextBatch ==
    \/ \E c \in Clients : Connect(c)
    \/ \E c \in Clients : DisconnectConnected(c)
    \/ \E c \in Clients : Subscribe(c, {"R"})
    \/ \E c \in Clients, capabilities \in BatchCapabilities :
           NegotiateOnce(c, capabilities)
    \/ \E symbol \in Symbols, q \in BatchQuotes(n_updates + 1) :
           \E fails \in FlushFailChoices(symbol) :
               QuoteUpdate(symbol, q, FALSE, fails)
    \/ \E config \in BatchConfigs : UpdateBatchConfig(config)
    \/ FlushAllBatches

SpecBatch == Init /\ [][NextBatch]_vars

\* The same system under the scheduling the code provides: an event that
\* can be dispatched is dispatched, and nobody is bound to call
\* flush_all_batches.
SpecBatchLive == Init /\ [][NextBatch]_vars /\ WF_vars(Events)

\* The fetcher with one caller at a time: the watch list is edited between
\* two fetch_batch_quotes calls, never during one.  A unit of the clock is
\* half of circuit_breaker_timeout (150 seconds in the source), longer than
\* a batch with all its back-off sleeps: the clock advances between calls.
WatchBetweenBatches(symbol, priority) ==
    fetch.pc = "idle" /\ AddSymbolToWatch(symbol, priority)

TickBetweenBatches ==
    fetch.pc = "idle" /\ Tick

NextBF ==
    \/ \E symbol \in FetchSymbols : WatchBetweenBatches(symbol, "MEDIUM")
    \/ \E symbols \in Inputs : FetchBatchQuotes(symbols)
    \/ \E outcome \in AdapterOutcomes : FetchAttempt(outcome)
    \/ FetchReturn
    \/ TickBetweenBatches

SpecBF == Init /\ [][NextBF]_vars

\* The fetcher and its update callbacks: callbacks are registered between
\* batches, the lists fit the batch limit.
RegisterBetweenBatches(callback) ==
    fetch.pc = "idle" /\ AddUpdateCallback(callback)

NextNotify ==
    \/ \E callback \in CallbackKinds : RegisterBetweenBatches(callback)
    \/ \E symbols \in {l \in Inputs : Len(l) <= max_batch_size} :
           FetchBatchQuotes(symbols)
    \/ \E outcome \in AdapterOutcomes : FetchAttempt(outcome)
    \/ FetchReturn

SpecNotify == Init /\ [][NextNotify]_vars

\* The scheduler's view: symbols are watched at a priority, fetched one at a
\* time, and the due symbols are asked for between fetches.
DueBetweenBatches ==
    fetch.pc = "idle" /\ DueSymbols

NextDue ==
    \/ \E symbol \in FetchSymbols, priority \in {"HIGH", "LOW"} :
           WatchBetweenBatches(symbol, priority)
    \/ \E symbols \in {l \in Inputs : Len(l) = 1} : FetchBatchQuotes(symbols)
    \/ \E outcome \in AdapterOutcomes : FetchAttempt(outcome)
    \/ FetchReturn
    \/ TickBetweenBatches
    \/ DueBetweenBatches

SpecDue == Init /\ [][NextDue]_vars

\* The watch list and its three operations, with fetches of one symbol in
\* between that move the counters of the entries.
UnwatchBetweenBatches(symbol) ==
    fetch.pc = "idle" /\ RemoveSymbolFromWatch(symbol)

ReprioritizeBetweenBatches(symbol, priority) ==
    fetch.pc = "idle" /\ UpdateSymbolPriority(symbol, priority)

NextWatch ==
    \/ \E symbol \in FetchSymbols, priority \in {"HIGH", "LOW"} :
           WatchBetweenBatches(symbol, priority)
    \/ \E symbol \in FetchSymbols : UnwatchBetweenBatches(symbol)
    \/ \E symbol \in FetchSymbols, priority \in {"HIGH", "LOW"} :
           ReprioritizeBetweenBatches(symbol, priority)
    \/ \E symbols \in {l \in Inputs : Len(l) = 1} : FetchBatchQuotes(symbols)
    \/ \E outcome \in AdapterOutcomes : FetchAttempt(outcome)
    \/ FetchReturn

SpecWatch == Init /\ [][NextWatch]_vars

\* The fetcher constructed with a monitoring service in which the "bse_api"
\* breaker is registered, so that every call of the client goes through it.
InitUp ==
    now = 0 /\ InitCB /\ InitWS /\ NewFetcher(TRUE) /\ InitCI /\ InitCS
    /\ InitTH

NextUp ==
    \/ \E symbols \in {l \in Inputs : Len(l) = 1} : FetchBatchQuotes(symbols)
    \/ \E outcome \in AdapterOutcomes : FetchAttempt(outcome)
    \/ FetchReturn
    \/ TickBetweenBatches

SpecUp == InitUp /\ [][NextUp]_vars

\* The message queue: clients connect and disconnect while messages are
\* addressed to them with send_to_client.
NextQueue ==
    \/ \E c \in Clients : Connect(c)
    \/ \E c \in Clients : DisconnectConnected(c)
    \/ \E c \in Clients, fail \in BOOLEAN : SendToClient(c, fail)

SpecQueue == Init /\ [][NextQueue]_vars

\* The capabilities of the clients of the fan-outs: none declared, or batch
\* support.
SendCapabilities ==
    {capabilities \in Capabilities :
        /\ ~capabilities.supports_compression
        /\ ~capabilities.supports_delta_updates}

\* The fan-outs: connected clients subscribe to "R" and declare their
\* capabilities while quote updates for "R" and system messages are sent to
\* them, any of the sends raising.
NextSend ==
    \/ \E c \in Clients : Connect(c)
    \/ \E c \in Clients : Subscribe(c, {"R"})
    \/ \E c \in Clients, capabilities \in SendCapabilities :
           NegotiateOnce(c, capabilities)
    \/ \E q \in BatchQuotes(n_updates + 1), fails \in SendFailChoices("R") :
           QuoteUpdate("R", q, FALSE, fails)
    \/ \E fails \in SUBSET (Get(symbol_subscribers, "R", {}) \cap connected_clients) :
           BroadcastStockUpdate("R", fails)
    \/ \E fails \in SUBSET connected_clients : BroadcastSystemMessage(fails)

SpecSend == Init /\ [][NextSend]_vars

\* server.py, lines 48-52: the fetcher is constructed without a monitoring
\* service and the integration service registers _handle_batch_updates as
\* its update callback.
InitIntegration ==
    /\ now = 0
    /\ InitCB
    /\ InitWS
    /\ InitCI
    /\ InitCS
    /\ InitTH
    /\ watched_symbols = EmptyDict
    /\ circuit_breaker_failures = 0
    /\ circuit_breaker_reset_time = NoTime
    /\ fetch = IdleFetch
    /\ n_batches = 0
    /\ update_callbacks = <<HandleBatchUpdatesCallback>>
    /\ due = NoDue
    /\ watch_ret = NoWatchCall
    /\ monitoring_service = FALSE

\* Reads through the cache: get_stock_data calls, one at a time, the fetches
\* they make, and entries of the store expiring.
NextGet ==
    \/ \E symbol \in FetchSymbols, fetch_if_missing \in BOOLEAN :
           GetStockData(symbol, fetch_if_missing)
    \/ CallFetchBatchQuotes
    \/ \E outcome \in AdapterOutcomes : FetchAttempt(outcome)
    \/ \E cb_out \in LoggedChoices(DOMAIN fetch.successful_quotes),
          outcome \in StoreOutcomes :
           GetStockDataReturn(cb_out, outcome)
    \/ \E symbol \in FetchSymbols : Expire(symbol)
    \/ TickBetweenBatches

SpecGet == InitIntegration /\ [][NextGet]_vars

\* Repair of the cache: invalidate_and_refresh calls, one at a time, with
\* the fetches they make.
NextRefresh ==
    \/ \E symbols \in Inputs : InvalidateAndRefresh(symbols)
    \/ CallFetchBatchQuotes
    \/ \E outcome \in AdapterOutcomes : FetchAttempt(outcome)
    \/ \E cb_out \in LoggedChoices(DOMAIN fetch.successful_quotes),
          out \in WriteChoices(ci.input, fetch.successful_quotes) :
           InvalidateAndRefreshReturn(cb_out, out)

SpecRefresh == InitIntegration /\ [][NextRefresh]_vars

\* The warm set: essential stocks are added and removed between calls, and
\* the cache is warmed for them.
NextWarm ==
    \/ \E symbol \in FetchSymbols, priority \in Priorities :
           AddEssentialStock(symbol, priority)
    \/ \E symbol \in FetchSymbols : RemoveEssentialStock(symbol)
    \/ WarmCacheForEssentials
    \/ CallFetchBatchQuotes
    \/ \E outcome \in AdapterOutcomes : FetchAttempt(outcome)
    \/ \E cb_out \in LoggedChoices(DOMAIN fetch.successful_quotes),
          out \in LoggedChoices(DOMAIN fetch.successful_quotes) :
           WarmCacheForEssentialsReturn(cb_out, out)

SpecWarm == InitIntegration /\ [][NextWarm]_vars

\* The periodic loops: threads start and stop the cache warming, the
\* fetcher's periodic updates are scheduled, and the loop threads run.
NextLoops ==
    \/ \E c \in Starters : StartTest(c)
    \/ \E c \in Starters : StartThread(c)
    \/ Stop
    \/ \E l \in 1..MaxLoops : WarmingLoopTest(l)
    \/ \E l \in 1..MaxLoops, error \in BOOLEAN : WarmingLoopBody(l, error)
    \/ \E l \in 1..MaxLoops : WarmingLoopWake(l)
    \/ SchedulePeriodicUpdates
    \/ \E l \in 1..MaxUpdateLoops : UpdateLoopTest(l)
    \/ \E l \in 1..MaxUpdateLoops, error \in BOOLEAN : UpdateLoopBody(l, error)
    \/ \E l \in 1..MaxUpdateLoops : UpdateLoopWake(l)
    \/ AddEssentialStock("X", "HIGH")

SpecLoops == InitIntegration /\ [][NextLoops]_vars

\* ------------------------------------------------------------------------
\* The codec's field aliases: a dict is optimized and restored.
\* ------------------------------------------------------------------------
InitCodec ==
    /\ now = 0 /\ InitCB /\ InitWS /\ InitBF /\ InitCI /\ InitTH
    /\ cs_pc = "data"
    /\ original_data \in QuoteFields \cup {WithExchange(d) : d \in QuoteFields}
    /\ optimized_data = EmptyDict
    /\ restored_data = EmptyDict

NextCodec ==
    \/ Optimize
    \/ Restore

SpecCodec == InitCodec /\ [][NextCodec]_vars

\* ------------------------------------------------------------------------
\* The registry under concurrent handlers: clients connect, and their
\* subscribe, unsubscribe and disconnect events are handled by threads that
\* run at once.
\* ------------------------------------------------------------------------
ConnectFirst(c) ==
    /\ handlers = <<>>
    /\ Connect(c)

NextHandlers ==
    \/ \E c \in Clients : ConnectFirst(c)
    \/ \E c \in Clients, symbols \in {{"R"}, {"R", "T"}} :
          Dispatch("subscribe", c, symbols)
    \/ \E c \in Clients, symbols \in {{"R"}, {"R", "T"}} :
          Dispatch("unsubscribe", c, symbols)
    \/ \E c \in Clients : Dispatch("disconnect", c, {})
    \/ \E h \in 1..MaxHandlers : SubscribeStep(h)
    \/ \E h \in 1..MaxHandlers : UnsubscribeStep(h)
    \/ \E h \in 1..MaxHandlers : DisconnectStep(h)

SpecHandlers == Init /\ [][NextHandlers]_vars

\* ------------------------------------------------------------------------
\* The callers of fetch_batch_quotes at once: X is made an essential stock,
\* then the update loop, cache-miss gets, warms and invalidate_and_refresh
\* calls run as threads.  The store takes every write.
\* ------------------------------------------------------------------------
AddEssentialFirst ==
    /\ fetchers = <<>>
    /\ AddEssentialStock("X", "HIGH")

NextFetchers ==
    \/ AddEssentialFirst
    \/ \E symbol \in FetchSymbols : StartGet(symbol)
    \/ \E symbols \in {<<"X">>, <<"X", "Y">>} : StartRefresh(symbols)
    \/ StartWarm
    \/ StartUpdate
    \/ \E f \in 1..MaxFetchers : Lookup(f)
    \/ \E f \in 1..MaxFetchers : Invalidate(f)
    \/ \E f \in 1..MaxFetchers : Enter(f)
    \/ \E f \in 1..MaxFetchers : AdapterCall(f)
    \/ \E f \in 1..MaxFetchers, outcome \in AdapterOutcomes : AdapterReturn(f, outcome)
    \/ \E f \in 1..MaxFetchers : Notify(f)
    \/ \E f \in 1..MaxFetchers : Write(f)

SpecFetchers == InitIntegration /\ [][NextFetchers]_vars

\* ------------------------------------------------------------------------
\* The update loop of the fetcher, running for ever with a client that
\* always answers: symbols are added to the watch list in the order of
\* WatchOrder, with any priority, at any time.  The thread of the loop is
\* scheduled again and again (`while True` with a sleep that ends), which
\* is the fairness of its two steps.
\* ------------------------------------------------------------------------
InitPeriodic ==
    now = MaxAge /\ InitCB /\ InitWS /\ NewFetcher(FALSE) /\ InitCI /\ InitCS
    /\ InitTH

NextPeriodic ==
    \/ \E priority \in Priorities : WatchNext(priority)
    \/ UpdateIteration
    \/ UpdateSleep

SpecPeriodic ==
    /\ InitPeriodic
    /\ [][NextPeriodic]_vars
    /\ WF_vars(UpdateIteration)
    /\ WF_vars(UpdateSleep)

\* The fetcher with one caller at a time, who also asks for the statistics
\* between two fetch_batch_quotes calls.
StatsBetweenBatches ==
    fetch.pc = "idle" /\ GetPerformanceStats

NextStats ==
    \/ \E symbols \in Inputs : FetchBatchQuotes(symbols)
    \/ \E outcome \in AdapterOutcomes : FetchAttempt(outcome)
    \/ FetchReturn
    \/ TickBetweenBatches
    \/ StatsBetweenBatches

SpecStats == Init /\ [][NextStats]_vars

\* ---- properties ----

\* ------------------------------------------------------------------------
\* Subscription registry and broadcaster: properties
\* ------------------------------------------------------------------------

\* C1: after any sequence of completed connect, subscribe, unsubscribe and
\* disconnect operations, symbol S is in client C's subscription set if and
\* only if C is in S's subscriber set.
C1_RegistryConsistent ==
    \A c \in RegistryClients, s \in Symbols :
        (c \in DOMAIN client_subscriptions /\ s \in client_subscriptions[c])
            <=> (s \in DOMAIN symbol_subscribers /\ c \in symbol_subscribers[s])

\* C1's case: two clients share a symbol, one of them holds a second symbol,
\* and a third client is connected with nothing subscribed.
C1_Witness ==
    \E c, d, e \in RegistryClients :
        /\ c # d /\ d # e /\ c # e
        /\ c \in DOMAIN client_subscriptions /\ client_subscriptions[c] = {"R", "T"}
        /\ d \in DOMAIN client_subscriptions /\ client_subscriptions[d] = {"R"}
        /\ e \in connected_clients /\ client_subscriptions[e] = {}
        /\ symbol_subscribers["R"] = {c, d}

\* The capabilities the broadcaster reads for client c.
CapsOf(c) == Get(client_capabilities, c, NoCapabilities)

\* The updates the last fan-out encoded for client c, and its emits to c.
EncsFor(c) == LET Mine(e) == e.client = c IN SelectSeq(encs, Mine)
EmitsTo(c) == LET Mine(m) == m.client = c IN SelectSeq(emits, Mine)

\* The non-timestamp fields in which quote q differs from baseline b.
Differing(b, q) == {k \in DataFields : b[k] # q[k]}

\* C5: in the fan-out of a quote update, every connected subscriber that
\* declared delta and batch support gets exactly one update of type delta
\* appended to its pending batch and nothing emitted, and every connected
\* subscriber that declared no capabilities gets exactly one update of type
\* full emitted at once, in whatever order the subscribers are processed.
\* Stated for the updates (not forced to be full) where neither a heartbeat
\* nor a flush is due: the quote differs from the symbol's baseline before the fan-out in a field
\* other than the timestamp (or there is none), and the pending batch has
\* room for one more update.
C5_FanOutByCapability ==
    [][(encs' # <<>> /\ ~encs'[1].forced) =>
        LET symbol == encs'[1].update.symbol
            quote == encs'[1].quote
            before == Get(previous_data_cache, symbol, EmptyDict)
            changed == DOMAIN before = {} \/ Differing(before, quote) # {}
            mine(c) == LET Mine(e) == e.client = c IN SelectSeq(encs', Mine)
            sent(c) == LET Mine(m) == m.client = c IN SelectSeq(emits', Mine)
        IN  \A c \in symbol_subscribers[symbol] \cap connected_clients :
              /\ (/\ CapsOf(c).supports_delta_updates
                  /\ CapsOf(c).supports_batch_updates
                  /\ changed
                  /\ Len(Get(pending_batches, c, <<>>)) + 1 < batch_config_max_batch_size)
                    => /\ Len(mine(c)) = 1
                       /\ mine(c)[1].update.type = "delta"
                       /\ pending_batches'[c] =
                            Append(Get(pending_batches, c, <<>>), mine(c)[1].update)
                       /\ sent(c) = <<>>
              /\ CapsOf(c) = NoCapabilities
                    => /\ Len(mine(c)) = 1
                       /\ mine(c)[1].update.type = "full"
                       /\ Len(sent(c)) = 1
                       /\ sent(c)[1].updates = <<mine(c)[1].update>>
    ]_vars

C7_DeltaExactlyChangedFields ==
    \A i \in DOMAIN encs :
        LET e == encs[i] IN
        (e.update.type # "full" /\ DOMAIN e.previous # {})
            => /\ Differing(e.previous, e.quote) = {} => e.update.type = "heartbeat"
               /\ Differing(e.previous, e.quote) # {}
                    => /\ e.update.type = "delta"
                       /\ DOMAIN e.update.changes = Differing(e.previous, e.quote)
                       /\ \A k \in DOMAIN e.update.changes :
                            e.update.changes[k] = e.quote[k]
               /\ e.update.timestamp = e.quote.timestamp

\* C7's case: against a baseline, a delta that reports one changed field
\* (a bid that became None) and leaves the unchanged one out.
C7_Witness ==
    \E i \in DOMAIN encs :
        /\ DOMAIN encs[i].previous # {}
        /\ encs[i].update.type = "delta"
        /\ DOMAIN encs[i].update.changes = {"bid_price"}
        /\ encs[i].quote.bid_price = None
        /\ encs[i].update.timestamp # encs[i].previous.timestamp

\* ------------------------------------------------------------------------
\* Circuit breaker: properties
\* ------------------------------------------------------------------------

\* C2: from closed with failure count 0, once failure_threshold calls in a
\* row have failed the breaker is open, and a call made while it is open and
\* before recovery_timeout has elapsed since the last failure is rejected
\* with the circuit-open error without starting the wrapped operation.
C2_OpenAfterThresholdRejects ==
    /\ (lastEv.kind = "failed" /\ consec >= failure_threshold)
            => breaker.state = "open"
    /\ \A c \in Callers :
            (enter[c].st = "open" /\ enter[c].early)
                => (enter[c].op = "none" /\ ret[c] = "rejected" /\ pc[c] = "idle")

\* C2's case: threshold failures in a row, then a call rejected inside the
\* recovery timeout.
C2_Witness ==
    \E c \in Callers :
        /\ consec >= failure_threshold
        /\ ret[c] = "rejected"
        /\ enter[c].st = "open"
        /\ enter[c].early

\* C3: with one caller at a time, a call made while the breaker is open and
\* recovery_timeout has elapsed since the last failure is let through with
\* the breaker half-open, and when that call returns successfully the breaker
\* is closed with failure count 0.
C3_HalfOpenSuccessCloses ==
    /\ \A c \in Callers :
            (enter[c].st = "open" /\ ~enter[c].early)
                => enter[c].op = "half-open"
    /\ \A c \in Callers :
            (lastEv = [kind |-> "ok", c |-> c] /\ enter[c].op = "half-open")
                => (breaker.state = "closed" /\ breaker.failure_count = 0)

\* C3's case: a trial call that started half-open has just succeeded.
C3_Witness ==
    \E c \in Callers :
        /\ lastEv = [kind |-> "ok", c |-> c]
        /\ enter[c].st = "open"
        /\ enter[c].op = "half-open"

\* C4: a call that started its operation while the breaker was half-open and
\* failed leaves the breaker open when it returns, whatever other callers of
\* the same breaker did meanwhile.
C4_HalfOpenFailureReopens ==
    \A c \in Callers :
        (lastEv = [kind |-> "failed", c |-> c] /\ enter[c].op = "half-open")
            => breaker.state = "open"

\* ------------------------------------------------------------------------
\* BatchDataFetcher.fetch_batch_quotes
\* ------------------------------------------------------------------------

\* The positions of the processed list at which symbol s was fetched.
Processed(s) == {i \in DOMAIN fetch.log : fetch.log[i].symbol = s}

\* The symbols of a BatchResult.
Covered == (DOMAIN fetch.successful_quotes) \cup (DOMAIN fetch.failed_symbols)

\* C8: the retry loop of fetch_batch.  Every symbol of the batch is fetched
\* with at most max_retries + 1 client calls, the calls for it end with the
\* first success, and only a symbol that used up all max_retries + 1 calls
\* is given up.  When the call has returned, a symbol that succeeded (after
\* k <= max_retries failures) is in successful_quotes, is not in
\* failed_symbols and, if watched, has error count 0; a symbol that failed
\* every attempt is in failed_symbols.  (For a list naming a symbol twice
\* the two fetches of the symbol are judged one by one.)
C8_RetryUntilSuccess ==
    /\ fetch.attempt <= max_retries
    /\ \A i \in DOMAIN fetch.log :
           /\ fetch.log[i].symbol = fetch.symbols[i]
           /\ fetch.log[i].calls <= max_retries + 1
           /\ ~fetch.log[i].success => fetch.log[i].calls = max_retries + 1
    /\ (fetch.pc = "returned" /\ ~fetch.rejected) =>
           /\ Len(fetch.log) = Len(fetch.symbols)
           /\ \A s \in Range(fetch.symbols) :
                  /\ (\E i \in Processed(s) : fetch.log[i].success)
                         => s \in DOMAIN fetch.successful_quotes
                  /\ (\A i \in Processed(s) : fetch.log[i].success)
                         => /\ s \notin DOMAIN fetch.failed_symbols
                            /\ s \in DOMAIN watched_symbols
                                   => watched_symbols[s].error_count = 0
                  /\ (\E i \in Processed(s) : ~fetch.log[i].success)
                         => s \in DOMAIN fetch.failed_symbols

\* A returned batch in which a watched symbol with earlier errors failed
\* max_retries times and then succeeded, and another symbol failed for good.
C8_Witness ==
    /\ fetch.pc = "returned"
    /\ \E i, j \in DOMAIN fetch.log :
           LET s == fetch.log[i].symbol
           IN  /\ fetch.log[i].success
               /\ fetch.log[i].calls = max_retries + 1
               /\ s \in DOMAIN fetch.watched0
               /\ fetch.watched0[s].error_count > 0
               /\ s \in DOMAIN watched_symbols
               /\ watched_symbols[s].error_count = 0
               /\ s \in DOMAIN fetch.successful_quotes
               /\ ~fetch.log[j].success

\* The fetcher's breaker is open: the failure count has reached the
\* threshold and the reset time is unset or not yet reached.
FetcherBreakerOpen ==
    /\ circuit_breaker_failures >= circuit_breaker_threshold
    /\ \/ circuit_breaker_reset_time = NoTime
       \/ now < circuit_breaker_reset_time

\* C9: a fetch_batch call made while the fetcher's breaker is open returns
\* at once, without a client call: the result has no successful quote, has
\* every requested symbol in failed_symbols with the circuit-open message,
\* and the watch list is what it was.
C9_OpenBreakerRejects ==
    [][(n_batches' = n_batches + 1 /\ FetcherBreakerOpen) =>
           /\ fetch'.pc = "returned"
           /\ fetch'.log = <<>>
           /\ DOMAIN fetch'.successful_quotes = {}
           /\ DOMAIN fetch'.failed_symbols = Range(fetch'.input)
           /\ \A s \in Range(fetch'.input) :
                  fetch'.failed_symbols[s] = CircuitOpenMessage
           /\ watched_symbols' = watched_symbols]_vars

\* A rejected batch that named a watched symbol with errors on record.
C9_Witness ==
    /\ fetch.pc = "returned"
    /\ fetch.rejected
    /\ \E s \in Range(fetch.input) :
           /\ s \in DOMAIN watched_symbols
           /\ watched_symbols[s].error_count > 0
           /\ fetch.failed_symbols[s] = CircuitOpenMessage

\* The first max_batch_size symbols of the list passed to fetch_batch.
FirstSymbols ==
    Range(SubSeq(fetch.input, 1,
                 IF Len(fetch.input) > max_batch_size
                 THEN max_batch_size ELSE Len(fetch.input)))

\* C10 as stated: whatever the state of the fetcher, the result of a
\* fetch_batch call with more than max_batch_size symbols has entries only
\* for the first max_batch_size symbols of the list.
C10_CoversOnlyTruncated ==
    (fetch.pc = "returned" /\ Len(fetch.input) > max_batch_size)
        => Covered \subseteq FirstSymbols

\* C10, amended: a fetch_batch call with more than max_batch_size symbols
\* returns a result; if the breaker did not reject the call the result
\* covers exactly the first max_batch_size symbols of the list, and if the
\* breaker rejected it the result has every symbol of the list, those
\* beyond the cut included, in failed_symbols.
C10_CoversTruncatedUnlessRejected ==
    /\ (fetch.pc = "fetching" /\ Len(fetch.input) > max_batch_size)
           => /\ Len(fetch.symbols) = max_batch_size
              /\ fetch.symbols = SubSeq(fetch.input, 1, max_batch_size)
    /\ (fetch.pc = "returned" /\ Len(fetch.input) > max_batch_size)
           => IF fetch.rejected
              THEN DOMAIN fetch.failed_symbols = Range(fetch.input)
              ELSE Covered = FirstSymbols

\* An oversize batch that was fetched, whose last symbol is not among the
\* first max_batch_size symbols and has no entry in the result.
C10_Witness ==
    /\ fetch.pc = "returned"
    /\ ~fetch.rejected
    /\ Len(fetch.input) > max_batch_size
    /\ fetch.input[Len(fetch.input)] \notin FirstSymbols
    /\ fetch.input[Len(fetch.input)] \notin Covered
    /\ DOMAIN fetch.successful_quotes # {}
    /\ DOMAIN fetch.failed_symbols # {}

\* The symbols of the processed list whose fetch ended as said.
Ended(success) ==
    {fetch.log[i].symbol : i \in {j \in DOMAIN fetch.log :
                                      fetch.log[j].success = success}}

\* C11: when a fetch_batch call that was not rejected by the breaker and
\* fetched at least one symbol has returned, every registered callback has been invoked exactly once with
\* the successful-quote map of the batch, also when that map is empty.
C11_EveryCallbackNotified ==
    (fetch.pc = "returned" /\ ~fetch.rejected /\ fetch.log # <<>>) =>
        \A i \in DOMAIN update_callbacks :
            /\ Cardinality({k \in DOMAIN fetch.notified :
                                fetch.notified[k].callback = i}) = 1
            /\ \A k \in DOMAIN fetch.notified :
                   fetch.notified[k].quotes = fetch.successful_quotes

\* C12: when a fetch_batch call with a non-empty successful-quote map has
\* returned, every registered callback was invoked once, in registration
\* order, those after a raising callback included; the call returned (the
\* exception did not reach the caller) and the BatchResult is what the
\* retry loop produced: the symbols that were fetched and those given up.
C12_CallbackIsolation ==
    (fetch.pc = "returned" /\ DOMAIN fetch.successful_quotes # {}) =>
        /\ Len(fetch.notified) = Len(update_callbacks)
        /\ \A i \in DOMAIN fetch.notified :
               /\ fetch.notified[i].callback = i
               /\ fetch.notified[i].quotes = fetch.successful_quotes
               /\ fetch.notified[i].raised = (update_callbacks[i] = "raises")
        /\ DOMAIN fetch.successful_quotes = Ended(TRUE)
        /\ DOMAIN fetch.failed_symbols = Ended(FALSE)

\* A returned batch with a success and a failure whose first callback
\* raised and whose second callback was invoked all the same.
C12_Witness ==
    /\ fetch.pc = "returned"
    /\ Len(fetch.notified) = 2
    /\ fetch.notified[1].raised
    /\ ~fetch.notified[2].raised
    /\ DOMAIN fetch.successful_quotes # {}
    /\ DOMAIN fetch.failed_symbols # {}

\* ------------------------------------------------------------------------
\* BatchDataFetcher.get_symbols_needing_update
\* ------------------------------------------------------------------------

\* The age of a watch entry at time t.
Age(config, t) == t - config.last_updated

\* The watch list of the scenario: X at HIGH and Y at LOW.
ScenarioWatched(w) ==
    /\ DOMAIN w = {"X", "Y"}
    /\ w["X"].priority = "HIGH"
    /\ w["Y"].priority = "LOW"

\* C13 as stated: the call returns exactly the watched symbols never updated
\* or older than the interval of their priority; and with X watched at HIGH
\* and Y at LOW, a call later than the HIGH interval and earlier than the LOW
\* interval after the symbols were watched returns X and not Y.
C13_DueOlderThanInterval ==
    due.called =>
        /\ due.symbols =
               {s \in DOMAIN due.watched :
                   \/ due.watched[s].last_updated = NoTime
                   \/ Age(due.watched[s], due.at)
                          > update_intervals[due.watched[s].priority]}
        /\ (/\ ScenarioWatched(due.watched)
            /\ due.at > update_intervals["HIGH"]
            /\ due.at < update_intervals["LOW"])
               => ("X" \in due.symbols /\ "Y" \notin due.symbols)

\* C13, amended: the call returns exactly the watched symbols never updated
\* or updated at least the interval of their priority ago; with X at HIGH
\* and Y at LOW both last updated at the same time, a call at least the
\* HIGH interval and less than the LOW interval later returns X and not Y,
\* and a call at least the LOW interval later returns both.
C13_DueAtLeastInterval ==
    due.called =>
        /\ due.symbols =
               {s \in DOMAIN due.watched :
                   \/ due.watched[s].last_updated = NoTime
                   \/ Age(due.watched[s], due.at)
                          >= update_intervals[due.watched[s].priority]}
        /\ (/\ ScenarioWatched(due.watched)
            /\ due.watched["X"].last_updated # NoTime
            /\ due.watched["X"].last_updated = due.watched["Y"].last_updated)
               => /\ (/\ Age(due.watched["X"], due.at) >= update_intervals["HIGH"]
                      /\ Age(due.watched["X"], due.at) < update_intervals["LOW"])
                         => ("X" \in due.symbols /\ "Y" \notin due.symbols)
                  /\ Age(due.watched["X"], due.at) >= update_intervals["LOW"]
                         => due.symbols = {"X", "Y"}

\* The scenario: X at HIGH and Y at LOW were updated at the same time, and a
\* call between the two intervals later returned X alone.
C13_Witness ==
    /\ due.called
    /\ ScenarioWatched(due.watched)
    /\ due.watched["X"].last_updated # NoTime
    /\ due.watched["X"].last_updated = due.watched["Y"].last_updated
    /\ Age(due.watched["X"], due.at) >= update_intervals["HIGH"]
    /\ Age(due.watched["X"], due.at) < update_intervals["LOW"]
    /\ due.symbols = {"X"}

\* ------------------------------------------------------------------------
\* BatchDataFetcher: the watch list
\* ------------------------------------------------------------------------

\* A step of fetch_batch_quotes: the call begins or is in progress.
FetchStep == fetch.pc = "fetching" \/ n_batches' # n_batches

\* A step of fetch_batch_quotes in which the adapter answered with a quote.
SucceededStep ==
    /\ Len(fetch'.log) > Len(fetch.log)
    /\ fetch'.log[Len(fetch'.log)].success

\* C14: a step of fetch_batch leaves the set of watched symbols and every
\* entry's symbol and priority as they were, changes no entry but that of
\* the symbol being fetched, and on a failed attempt leaves that entry's
\* last-updated and update count as they were.
C14_FetchKeepsWatchList ==
    [][FetchStep =>
          /\ DOMAIN watched_symbols' = DOMAIN watched_symbols
          /\ \A s \in DOMAIN watched_symbols :
                 /\ watched_symbols'[s].priority = watched_symbols[s].priority
                 /\ watched_symbols'[s].symbol = watched_symbols[s].symbol
                 /\ (fetch.pc # "fetching" \/ s # fetch.symbols[fetch.i])
                        => watched_symbols'[s] = watched_symbols[s]
                 /\ (fetch.pc = "fetching" /\ ~SucceededStep)
                        => /\ watched_symbols'[s].last_updated
                                  = watched_symbols[s].last_updated
                           /\ watched_symbols'[s].update_count
                                  = watched_symbols[s].update_count]_vars

\* A returned batch in which a watched symbol updated earlier was given up,
\* its last-updated kept and its error count raised.
C14_Witness ==
    /\ fetch.pc = "returned"
    /\ \E s \in DOMAIN fetch.failed_symbols :
           /\ s \in DOMAIN watched_symbols
           /\ s \in DOMAIN fetch.watched0
           /\ s \notin DOMAIN fetch.successful_quotes
           /\ fetch.watched0[s].last_updated # NoTime
           /\ watched_symbols[s].last_updated = fetch.watched0[s].last_updated
           /\ watched_symbols[s].error_count > fetch.watched0[s].error_count

\* C15: add_symbol_to_watch returns False and changes nothing if the symbol
\* is watched, otherwise returns True and enters the symbol with the given
\* priority; remove_symbol_from_watch and update_symbol_priority return
\* False and change nothing if the symbol is not watched, otherwise return
\* True and remove the entry, or set its priority and nothing else.  No call
\* touches the entry of another symbol.
C15_WatchListCalls ==
    [][(watch_ret' # watch_ret /\ watch_ret'.op # "none") =>
          LET r == watch_ret'
              s == watch_ret'.symbol
              was == s \in DOMAIN watched_symbols
          IN  /\ \A o \in (DOMAIN watched_symbols) \ {s} :
                     /\ o \in DOMAIN watched_symbols'
                     /\ watched_symbols'[o] = watched_symbols[o]
              /\ (DOMAIN watched_symbols') \ {s} = (DOMAIN watched_symbols) \ {s}
              /\ r.op = "add" =>
                     /\ r.result = ~was
                     /\ was => watched_symbols' = watched_symbols
                     /\ ~was => /\ s \in DOMAIN watched_symbols'
                                /\ watched_symbols'[s] = SymbolConfig(s, r.priority)
              /\ r.op = "remove" =>
                     /\ r.result = was
                     /\ s \notin DOMAIN watched_symbols'
              /\ r.op = "update" =>
                     /\ r.result = was
                     /\ ~was => watched_symbols' = watched_symbols
                     /\ was => /\ s \in DOMAIN watched_symbols'
                               /\ watched_symbols'[s] =
                                      [watched_symbols[s] EXCEPT
                                           !.priority = r.priority]]_vars

\* A refused add_symbol_to_watch for a symbol watched at another priority
\* whose entry has counted an update.
C15_Witness ==
    /\ watch_ret.op = "add"
    /\ ~watch_ret.result
    /\ watch_ret.symbol \in DOMAIN watched_symbols
    /\ watched_symbols[watch_ret.symbol].priority # watch_ret.priority
    /\ watched_symbols[watch_ret.symbol].update_count > 0

\* ------------------------------------------------------------------------
\* BatchDataFetcher: the "bse_api" breaker in front of the client
\* ------------------------------------------------------------------------

\* C16: a symbol with an attempt that the open "bse_api" breaker refused is
\* given up without a further attempt, and the reason recorded for it is not
\* the one recorded for an empty answer or an exception of the client.
C16_RefusedFailsFast ==
    \A k \in DOMAIN fetch.log :
        fetch.log[k].refused > 0 =>
            /\ ~fetch.log[k].success
            /\ fetch.log[k].refused = 1
            /\ fetch.log[k].reason # NoDataMessage

\* ------------------------------------------------------------------------
\* OptimizedWebSocketService: the pending batches
\* ------------------------------------------------------------------------

\* Client c has an update waiting in its pending batch.
Pending(c) == Get(pending_batches, c, <<>>) # <<>>

\* C17: an update waiting in the pending batch of a connected client is
\* eventually taken out of the batch and sent, or the client disconnects.
C17_PendingEventuallySent ==
    \A c \in Clients :
        (c \in connected_clients /\ Pending(c))
            ~> (c \notin connected_clients \/ ~Pending(c))

\* C18: when a fan-out of a quote update has completed, every client's
\* pending batch holds fewer than max_batch_size updates.
C18_BatchBelowLimit ==
    [][n_updates' # n_updates =>
          \A c \in DOMAIN pending_batches' :
              Len(pending_batches'[c]) < batch_config'.max_batch_size]_vars

\* The updates that the step appends to the pending batch of client c, and
\* the batch messages it emits to c.
Enqueued(c) ==
    LET Mine(e) == e.client = c
        mine == SelectSeq(encs', Mine)
    IN  IF Get(client_capabilities, c, NoCapabilities).supports_batch_updates
        THEN [i \in DOMAIN mine |-> mine[i].update]
        ELSE <<>>

BatchesTo(c) ==
    LET Mine(m) == m.client = c /\ m.event = "batch_update"
    IN  SelectSeq(emits', Mine)

\* C19: in every step, a client whose pending batch is flushed is sent one
\* batch message that holds all the updates that were pending for it, in
\* the order in which they were enqueued, and its batch is left empty; a
\* client with nothing pending is sent no batch message; no update leaves
\* the pending batch without being sent, or stays in it after being sent.
C19_FlushSendsAll ==
    [][\A c \in Clients :
          LET all == Get(pending_batches, c, <<>>) \o Enqueued(c)
              after == Get(pending_batches', c, <<>>)
              sent == BatchesTo(c)
          IN  /\ all = <<>> => sent = <<>>
              /\ (after # all \/ sent # <<>>) =>
                     /\ Len(sent) = 1
                     /\ sent[1].updates = all
                     /\ after = <<>>]_vars

\* C20: a client that is not connected has no subscription set, is in no
\* symbol's subscriber set, and has no pending batch and no stored
\* capabilities.
C20_NothingLeftAfterDisconnect ==
    \A c \in Clients :
        c \notin connected_clients =>
            /\ c \notin DOMAIN client_subscriptions
            /\ \A symbol \in DOMAIN symbol_subscribers :
                   c \notin symbol_subscribers[symbol]
            /\ c \notin DOMAIN pending_batches
            /\ c \notin DOMAIN client_capabilities

\* The step queues a message for client c, which is not connected.
QueuesFor(c) ==
    /\ pass'.op = "send_to_client"
    /\ pass'.target = c
    /\ n_messages' # n_messages
    /\ c \notin connected_clients

\* The step is the connect event of client c.
Connects(c) == c \notin connected_clients /\ c \in connected_clients'

\* C21: the queue of undelivered messages of a client never holds more than
\* max_queue_size messages; a message for a client that is not connected is
\* appended at the end of its queue, after the oldest message is dropped if
\* the queue is full; when the client connects, each queued message is sent
\* once, the delivered ones arrive in queue order, and the queue entry is
\* removed.
C21_QueueBoundedFifo ==
    [][\A c \in Clients :
          LET q == Get(message_queue, c, <<>>)
              sends == QueuedMessages(message_queue, c)
          IN  /\ Len(Get(message_queue', c, <<>>)) <= max_queue_size
              /\ QueuesFor(c) =>
                     /\ c \in DOMAIN message_queue'
                     /\ message_queue'[c] =
                            Append(IF Len(q) >= max_queue_size THEN Tail(q) ELSE q,
                                   Message("message", ""))
              /\ Connects(c) =>
                     /\ c \notin DOMAIN message_queue'
                     /\ Len(emits') + Len(raised') = Len(sends)
                     /\ \A i \in DOMAIN sends :
                            \/ \E j \in DOMAIN emits' : emits'[j] = sends[i]
                            \/ \E j \in DOMAIN raised' : raised'[j] = sends[i]
                     /\ \A i, j \in DOMAIN emits' :
                            i < j => \E a, b \in DOMAIN sends :
                                         /\ a < b
                                         /\ emits'[i] = sends[a]
                                         /\ emits'[j] = sends[b]]_vars

\* Client c has just connected and was sent a full queue of messages, the
\* first of which is not the first message of the behaviour.
C21_Witness ==
    \E c \in connected_clients :
        /\ Len(emits) = max_queue_size
        /\ \A i \in DOMAIN emits :
               emits[i].client = c /\ emits[i].event = "queued_message"
        /\ emits[1].updates[1].id > 1
        /\ \A i \in DOMAIN emits : i > 1 =>
               emits[i].updates[1].id = emits[i - 1].updates[1].id + 1
        /\ message_queue = EmptyDict

\* The step is one fan-out pass: a quote update or a system broadcast.
FanOutPass ==
    /\ pass'.op \in {"send_optimized_stock_update", "broadcast_stock_update",
                     "broadcast_system_message"}
    /\ n_updates' # n_updates \/ n_messages' # n_messages

\* The connected clients the pass is addressed to.
Addressed ==
    IF pass'.op = "broadcast_system_message"
    THEN connected_clients
    ELSE Get(symbol_subscribers, pass'.target, {}) \cap connected_clients

\* The sends to client c that the step made, and those of them that raised.
SendsTo(c) ==
    LET Mine(m) == m.client = c
    IN  SelectSeq(emits', Mine) \o SelectSeq(raised', Mine)

RaisedTo(c) ==
    LET Mine(m) == m.client = c
    IN  SelectSeq(raised', Mine)

\* C22: in one fan-out pass for a quote update or a system broadcast, a
\* send that raises does not propagate to the caller, does not keep the
\* pass from reaching the other connected subscribers (each is sent its
\* message, or has the update put into its pending batch), and leaves the
\* failing client connected and subscribed.
C22_SendFailureIsolated ==
    [][FanOutPass =>
          /\ ~escaped'
          /\ \A c \in Addressed :
                 IF /\ pass'.op = "send_optimized_stock_update"
                    /\ Get(client_capabilities, c, NoCapabilities).supports_batch_updates
                 THEN \E i \in DOMAIN encs' : encs'[i].client = c
                 ELSE Len(SendsTo(c)) = 1
          /\ \A c \in Clients :
                 RaisedTo(c) # <<>> =>
                     /\ c \in connected_clients'
                     /\ c \in DOMAIN client_subscriptions'
                     /\ client_subscriptions'[c] = client_subscriptions[c]
                     /\ \A symbol \in Symbols :
                            c \in Get(symbol_subscribers, symbol, {})
                                <=> c \in Get(symbol_subscribers', symbol, {})]_vars

\* A quote update was fanned out to two connected subscribers; the send to
\* the client processed first raised and the client processed second was
\* sent the update.
C22_Witness ==
    /\ pass.op = "send_optimized_stock_update"
    /\ Len(encs) = 2
    /\ Len(raised) = 1
    /\ Len(emits) = 1
    /\ raised[1].client = encs[1].client
    /\ emits[1].client = encs[2].client
    /\ emits[1].client # raised[1].client
    /\ ~escaped
    /\ raised[1].client \in connected_clients
    /\ raised[1].client \in Get(symbol_subscribers, pass.target, {})

\* The step is the lookup of a get_stock_data call, and the step is the
\* return of one that fetched.
GetLookup == cache_hits' # cache_hits \/ cache_misses' # cache_misses
GetFetched == ci.pc = "get_stock_data" /\ ci'.pc = "idle"

\* C23: get_stock_data(symbol, fetch_if_missing) on a cache hit returns the
\* cached quote, increments the hit counter and fetches nothing; on a miss
\* it increments the miss counter and, if and only if fetch_if_missing is
\* set, makes exactly one fetch_batch_quotes call for the symbol alone,
\* returning the fetched quote if the fetch succeeded and None otherwise;
\* when no call is in progress, hits + misses is the number of calls that
\* have ended.
C23_GetContract ==
    [][/\ GetLookup =>
              \/ /\ ci'.pc = "idle"
                 /\ ci_ret'.hit
                 /\ ci_ret'.input[1] \in DOMAIN cache_store
                 /\ ci_ret'.value = cache_store[ci_ret'.input[1]]
                 /\ ~ci_ret'.raised
                 /\ cache_hits' = cache_hits + 1
                 /\ cache_misses' = cache_misses
                 /\ n_batches' = n_batches
                 /\ fetch' = fetch
              \/ /\ ci'.pc = "idle"
                 /\ ~ci_ret'.hit
                 /\ ci_ret'.input[1] \notin DOMAIN cache_store
                 /\ ~ci_ret'.fetch_if_missing
                 /\ ci_ret'.value = NoQuote
                 /\ ~ci_ret'.raised
                 /\ cache_hits' = cache_hits
                 /\ cache_misses' = cache_misses + 1
                 /\ n_batches' = n_batches
                 /\ fetch' = fetch
              \/ /\ ci'.pc = "get_stock_data"
                 /\ ci'.input[1] \notin DOMAIN cache_store
                 /\ cache_hits' = cache_hits
                 /\ cache_misses' = cache_misses + 1
       /\ GetFetched =>
              /\ ci_ret'.fetch_if_missing
              /\ n_batches = ci.batches + 1
              /\ fetch.input = ci.input
              /\ Len(ci.input) = 1
              /\ ~ci_ret'.raised
              /\ ci_ret'.value =
                     Get(fetch.successful_quotes, ci.input[1], NoQuote)
       /\ ci'.pc = "idle" => cache_hits' + cache_misses' = n_gets']_vars

\* C24: when the write-through of a quote that get_stock_data has fetched
\* fails (the store raises or reports failure), get_stock_data raises
\* nothing and returns the fetched quote.
C24_WriteFailureKeepsResult ==
    [][(/\ GetFetched
        /\ ci.input[1] \in DOMAIN fetch.successful_quotes
        /\ ci_ret'.write \in {"false", "raise"}) =>
           /\ ~ci_ret'.raised
           /\ ci_ret'.value = fetch.successful_quotes[ci.input[1]]]_vars

\* The step is the return of an invalidate_and_refresh call.
Refreshed == ci.pc = "invalidate_and_refresh" /\ ci'.pc = "idle"

\* C25: invalidate_and_refresh(symbols) deletes every input symbol from the
\* cache before it fetches; it returns a map with exactly one entry for
\* every input symbol, true if and only if the symbol was fetched anew and
\* is in the cache again, and a symbol whose entry is false is not in the
\* cache when the call returns.
C25_InvalidateAndRefresh ==
    [][/\ (ci.pc = "idle" /\ ci'.pc = "invalidate_and_refresh") =>
              \A symbol \in Range(ci'.input) : symbol \notin DOMAIN cache_store'
       /\ Refreshed =>
              /\ ~ci_ret'.raised
              /\ DOMAIN ci_ret'.results = Range(ci.input)
              /\ \A symbol \in Range(ci.input) :
                     /\ ci_ret'.results[symbol] \in BOOLEAN
                     /\ ci_ret'.results[symbol] <=>
                            /\ symbol \in DOMAIN fetch.successful_quotes
                            /\ symbol \in DOMAIN cache_store'
                     /\ ~ci_ret'.results[symbol] =>
                            symbol \notin DOMAIN cache_store']_vars

\* The step is the return of a warm_cache_for_essentials call that fetched.
Warmed == ci.pc = "warm_cache_for_essentials" /\ ci'.pc = "idle"

\* C26: warm_cache_for_essentials returns a map with one boolean entry for
\* every essential symbol: true for a symbol that was fetched and written
\* to the cache, false for a symbol whose fetch or cache write failed.
C26_WarmResultPerSymbol ==
    [][Warmed =>
          /\ DOMAIN ci_ret'.results = essential_stocks
          /\ \A symbol \in essential_stocks :
                 ci_ret'.results[symbol] <=>
                     /\ symbol \in DOMAIN fetch.successful_quotes
                     /\ symbol \in DOMAIN cache_store'
                     /\ cache_store'[symbol] = fetch.successful_quotes[symbol]]_vars

\* C27: after add_essential_stock(symbol, priority) the symbol is essential
\* and watched at the given priority; after remove_essential_stock(symbol)
\* it is neither essential nor watched; every essential symbol is watched.
C27_EssentialMirrorsWatchList ==
    [][/\ watch_ret'.op = "add_essential_stock" =>
              /\ watch_ret'.symbol \in essential_stocks'
              /\ watch_ret'.symbol \in DOMAIN watched_symbols'
              /\ watched_symbols'[watch_ret'.symbol].priority = watch_ret'.priority
       /\ watch_ret'.op = "remove_essential_stock" =>
              /\ watch_ret'.symbol \notin essential_stocks'
              /\ watch_ret'.symbol \notin DOMAIN watched_symbols'
       /\ essential_stocks' \subseteq DOMAIN watched_symbols']_vars

\* C28: at most one warming loop is alive at any time, whatever start and
\* stop calls have been made and however they interleave, and a start call
\* made while a loop is alive starts no loop.
C28_OneWarmingLoop ==
    [][/\ Cardinality(Alive(warming')) <= 1
       /\ Len(warming') > Len(warming) => Alive(warming) = {}]_vars

\* C29: a periodic loop that has been given the stop signal begins no
\* further iteration (it finishes the one in progress and returns), and an
\* error inside an iteration does not end the loop.
C29_LoopsStopOnSignal ==
    [][/\ \A l \in DOMAIN warming :
              /\ warming[l].signalled => warming'[l].iterations = warming[l].iterations
              /\ (warming[l].pc = "body" /\ warming'[l].erred) =>
                     warming'[l].pc # "done"
       /\ \A l \in DOMAIN updating :
              /\ updating[l].signalled => updating'[l].iterations = updating[l].iterations
              /\ (updating[l].pc = "body" /\ updating'[l].erred) =>
                     updating'[l].pc # "done"]_vars

\* ------------------------------------------------------------------------
\* C30
\* ------------------------------------------------------------------------

\* The precision that _optimize_data_structure leaves to the floats of a
\* key, in units of the model's floats.
Precision(key) ==
    IF key \in PriceFields THEN Pow10(Decimals - 2)
    ELSE IF key = "percent_change" THEN Pow10(Decimals - 3)
    ELSE 1

\* The keys of a dict whose value is None.
NoneFields(d) == {k \in DOMAIN d : d[k].type = "NoneType"}

\* Two dicts are equal (==): the same keys, the same values.
DictEq(a, b) ==
    /\ DOMAIN a = DOMAIN b
    /\ \A k \in DOMAIN a : a[k].type = b[k].type /\ a[k].v = b[k].v

\* The keys of a dict whose float has more decimals than are kept.
LongFloats(d) ==
    {k \in DOMAIN d : d[k].type = "float" /\ d[k].v % Precision(k) # 0}

\* C30 as stated: for every quote Q, restore(optimize(Q fields)) equals
\* Q fields, every field preserved, the optional fields that are None
\* included.
C30_RoundTripLossless ==
    (cs_pc = "restored" /\ original_data \in QuoteFields)
        => DictEq(restored_data, original_data)

\* C30, amended: restore(optimize(d)) has the fields of d that are not None
\* under their own names and no other; a value that is not a float is the
\* same, a float is the nearest one of 2 decimals (price-like fields) or of
\* 3 decimals (percent_change).  The round trip gives d back exactly if d
\* has no None field and no float of more decimals.
C30_RoundTripUpToRounding ==
    cs_pc = "restored" =>
        /\ DOMAIN restored_data = DOMAIN original_data \ NoneFields(original_data)
        /\ \A k \in DOMAIN restored_data :
              LET old == original_data[k]
                  new == restored_data[k]
              IN  IF old.type # "float" THEN new = old
                  ELSE /\ new.type = "float"
                       /\ new.v % Precision(k) = 0
                       /\ 2 * (new.v - old.v) <= Precision(k)
                       /\ 2 * (old.v - new.v) <= Precision(k)
        /\ DictEq(restored_data, original_data)
              <=> (NoneFields(original_data) = {}
                   /\ LongFloats(original_data) = {})

\* A quote with an absent optional field and a price of 4 decimals has been
\* through the round trip.
C30_Witness ==
    /\ cs_pc = "restored"
    /\ original_data \in QuoteFields
    /\ original_data.bid_price.type = "NoneType"
    /\ original_data.ask_price.type = "float"
    /\ "bid_price" \notin DOMAIN restored_data
    /\ restored_data.current_price.v # original_data.current_price.v
    /\ restored_data.symbol.v = original_data.symbol.v

\* A quote with every optional field and no float of more decimals has been
\* through the round trip and is the same.
C30_WitnessSame ==
    /\ cs_pc = "restored"
    /\ original_data \in QuoteFields
    /\ NoneFields(original_data) = {}
    /\ DictEq(restored_data, original_data)

\* ------------------------------------------------------------------------
\* C31
\* ------------------------------------------------------------------------

\* C31: a delta-capable subscriber is sent the fields that changed since the
\* update it was sent before for the same symbol: in two fan-outs that
\* follow each other, the delta or heartbeat encoded for a client carries
\* every non-timestamp field in which the quote differs from the quote the
\* client was sent in the fan-out before.
C31_DeltaSinceLastSentToClient ==
    [][\A i \in DOMAIN encs', j \in DOMAIN encs :
          (/\ encs'[i].client = encs[j].client
           /\ encs'[i].update.symbol = encs[j].update.symbol
           /\ encs'[i].update.type \in {"delta", "heartbeat"})
              => Differing(encs[j].quote, encs'[i].quote)
                    \subseteq DOMAIN encs'[i].update.changes
    ]_vars

\* ------------------------------------------------------------------------
\* C32
\* ------------------------------------------------------------------------

\* Every handler that was dispatched has ended.
AllHandlersDone == \A h \in DOMAIN handlers : handlers[h].pc = "done"

\* Client c has been disconnected: its disconnect handler has ended.
Disconnected(c) ==
    \E h \in DOMAIN handlers :
        /\ handlers[h].op = "disconnect" /\ handlers[h].client = c
        /\ handlers[h].pc = "done"

\* C32: subscribe and unsubscribe update the two maps as one atomic step:
\* whatever the interleaving of the steps of concurrent subscribe,
\* unsubscribe and disconnect handlers of a client, once all of them have
\* ended the two maps agree, and a client that has been disconnected has no
\* entry in either map.
C32_RegistryAtomic ==
    AllHandlersDone =>
        /\ \A c \in Clients, s \in Symbols :
              (c \in DOMAIN client_subscriptions /\ s \in client_subscriptions[c])
                  <=> (s \in DOMAIN symbol_subscribers /\ c \in symbol_subscribers[s])
        /\ \A c \in Clients :
              Disconnected(c) =>
                  /\ c \notin DOMAIN client_subscriptions
                  /\ \A s \in DOMAIN symbol_subscribers : c \notin symbol_subscribers[s]

\* ------------------------------------------------------------------------
\* C33
\* ------------------------------------------------------------------------

\* The callers whose wrapped operation was started while the breaker was
\* half-open and is still running: the trial calls in progress.
TrialCalls == {c \in Callers : pc[c] = "running" /\ enter[c].op = "half-open"}

\* C33: while the breaker is half-open at most one trial call is executing
\* the wrapped operation: of several callers that call after
\* recovery_timeout has elapsed only one reaches the operation before the
\* outcome of the trial has been recorded.
C33_OneTrialCall ==
    breaker.state = "half-open" => Cardinality(TrialCalls) <= 1

\* ------------------------------------------------------------------------
\* C34, C35
\* ------------------------------------------------------------------------

\* The threads whose call of the client for symbol s is outstanding.
InFlight(s) ==
    {f \in DOMAIN fetchers :
        fetchers[f].pc = "in_flight" /\ fetchers[f].symbols[fetchers[f].i] = s}

\* C34: at no time are two fetches of the client for the same symbol in
\* flight, whichever of the update loop, a cache-miss get, a warm and an
\* invalidate_and_refresh run at once.
C34_OneFetchPerSymbolInFlight ==
    \A s \in FetchSymbols : Cardinality(InFlight(s)) <= 1

\* The quote of symbol s that the client returned last.
RECURSIVE LastDelivered(_, _)
LastDelivered(seq, s) ==
    IF seq = <<>> THEN NoQuote
    ELSE IF seq[Len(seq)].symbol = s THEN seq[Len(seq)]
    ELSE LastDelivered(SubSeq(seq, 1, Len(seq) - 1), s)

\* C35: per symbol the writes to the cache are applied in the order in which
\* the fetches completed: once every thread has ended, the cache holds for
\* a symbol the quote of the fetch that completed last, never an earlier one.
C35_CacheHoldsLastCompleted ==
    (\A f \in DOMAIN fetchers : fetchers[f].pc = "done")
        => \A s \in DOMAIN cache_store :
              cache_store[s] = LastDelivered(delivered, s)

\* ------------------------------------------------------------------------
\* C36
\* ------------------------------------------------------------------------

\* The last n symbol fetches of the batch in progress.
LastFetches(n) == {i \in DOMAIN fetch.log : i > Len(fetch.log) - n}

\* C36: the breaker that fetch_batch consults opens on consecutive failures
\* only: a successful symbol fetch sets the failure count back, so when the
\* count has reached the threshold (the next fetch_batch is rejected) the
\* last circuit_breaker_threshold symbol fetches have all failed.
C36_OpensOnConsecutiveFailures ==
    (/\ circuit_breaker_failures >= circuit_breaker_threshold
     /\ Len(fetch.log) >= circuit_breaker_threshold)
        => \A i \in LastFetches(circuit_breaker_threshold) : ~fetch.log[i].success

\* ------------------------------------------------------------------------
\* C37
\* ------------------------------------------------------------------------

\* C37: for a fetch_batch call that the breaker does not reject,
\* successful_quotes and failed_symbols partition the symbols of the cut
\* input: every symbol is in one of the two maps and none is in both, also
\* for a list that names a symbol more than once.
C37_ResultPartitionsInput ==
    (fetch.pc = "returned" /\ ~fetch.rejected) =>
        /\ Covered = Range(fetch.symbols)
        /\ (DOMAIN fetch.successful_quotes) \cap (DOMAIN fetch.failed_symbols) = {}

\* ------------------------------------------------------------------------
\* C38
\* ------------------------------------------------------------------------

\* C38: a quote that was fetched is written to the cache (and published as
\* a change of its symbol, which refresh_stock_data does with the write)
\* once: a cache-miss get, an invalidate_and_refresh and the update callback
\* of the fetcher together never write the same fetched quote twice.
C38_OneWritePerQuote ==
    \A i, j \in DOMAIN writes :
        (/\ writes[i].quote = writes[j].quote
         /\ {writes[i].by, writes[j].by} \subseteq
                {HandleBatchUpdatesCallback, "get_stock_data",
                 "invalidate_and_refresh"})
            => i = j

\* ------------------------------------------------------------------------
\* C39
\* ------------------------------------------------------------------------

\* C39: under the update loop, with a client that always answers and the
\* fetcher's breaker closed, every watched symbol is fetched in the end (its
\* update count gets above 0), also when more than max_batch_size watched
\* symbols are due in one iteration.
C39_EveryWatchedSymbolFetched ==
    \A i \in DOMAIN WatchOrder :
        (WatchOrder[i] \in DOMAIN watched_symbols)
            ~> (/\ WatchOrder[i] \in DOMAIN watched_symbols
                /\ watched_symbols[WatchOrder[i]].update_count > 0)

\* ------------------------------------------------------------------------
\* C40
\* ------------------------------------------------------------------------

\* C40: get_performance_stats only reads: a call of it changes neither the
\* failure count of the fetcher's breaker nor its reset time (so that a
\* later fetch_batch is rejected or attempted as it would have been without
\* the call).
C40_StatsReadOnly ==
    [][StatsBetweenBatches =>
           UNCHANGED <<circuit_breaker_failures, circuit_breaker_reset_time>>
    ]_vars

====
